---------------------------- MODULE Spec2Model ----------------------------
(***************************************************************************)
(* Voice allocation and parameter propagation of peppermint-synth.         *)
(*                                                                         *)
(* Two backends exist in the repository and a program instance constructs  *)
(* exactly one of them:                                                    *)
(*   - SuperColliderSynthController (src/src/sc_synth_controller.py), the  *)
(*     OSC backend, called directly by the GUI and MIDI layers;            *)
(*   - PeppermintSynthEngine (src/src/peppermint_engine.py), the Supriya   *)
(*     backend, whose worker thread applies commands one at a time.        *)
(* The variable `backend` records which one was constructed; the variables *)
(* of the other backend keep their constructor values.                     *)
(*                                                                         *)
(* Numbers: every float of the program is modelled as an integer count of  *)
(* thousandths (1.0 is 1000, 0.2 is 200, 261.626 Hz is 261626).            *)
(***************************************************************************)
EXTENDS Integers, Sequences, FiniteSets, TLC

VARIABLES
    backend,            \* "sc" or "engine": the backend this program instance constructed
    \* ---- SuperColliderSynthController fields (sc_synth_controller.py:72-83)
    poly_mode,          \* self.poly_mode
    max_voices,         \* self.max_voices
    mono_node_id,       \* self.mono_node_id
    mono_current_note,  \* self.mono_current_note
    poly_note_to_node,  \* self.poly_note_to_node, an insertion-ordered dict
    sc_trace,           \* what the last call did, in program order: sends and registry writes
    sc_call,            \* the last call made on the controller and its arguments
    \* ---- PeppermintSynthEngine fields (peppermint_engine.py:174-189)
    eng_server,         \* self._server is not None
    eng_synth_group,    \* self._synth_group is not None
    eng_poly_mode,      \* self._poly_mode
    eng_global_params,  \* self._global_params
    eng_poly_voices,    \* self._poly_voices, an insertion-ordered dict note -> Synth
    eng_mono_voice,     \* self._mono_voice
    eng_synths,         \* how many Synth objects add_synth has returned (the k-th is voice k)
    eng_trace,          \* the engine calls the worker made in its last step, in order
    eng_cmd,            \* the command that step belongs to (<<"startup">>: the startup)
    eng_pending,        \* the (name, value) stores made while no voice was registered
                        \* and not yet seen by a new voice, overwritten or rebooted away
    \* ---- PeppermintSynthEngine: the threads around the command queue
    eng_running,        \* self._running
    eng_command_queue,  \* self._command_queue, oldest entry first
    eng_audio_device,   \* self._audio_device ("" for None)
    wk_pc,              \* where the worker thread is in _thread_main: "startup",
                        \* "startup_install", "startup_crashed", "loop", "get",
                        \* "boot_quit", "boot_options", "boot_server",
                        \* "boot_install", "cleanup", "done", "crashed"
    gui_pc,             \* where the GUI (main) thread is: "idle", inside shutdown(), or past it
    wk_enqueued,        \* every queue entry ever put, in the order the puts took effect
    wk_applied,         \* every queue entry the worker took and dispatched, in order
    eng_sounding,       \* the voices created and not yet sent gate=0
    eng_access,         \* the accesses made to the engine's fields: <<thread, field, kind>>
    \* ---- PeppermintSynthEngine: the audio device of each reboot
    dev_requested,      \* self._audio_device as it was at each reboot_audio() call, in order
    dev_booted,         \* the device each ("reboot",) boot configured, in order
    \* ---- MidiInputManager (peppermint_midi.py and midi_input.py): one message
    md_last,            \* the last message dispatched and the callbacks it invoked
    \* ---- peppermint_midi.MidiInputManager: the port and the two threads
    pm_running,         \* self._running
    pm_input_port,      \* self._input_port: the port object (None: no port)
    pm_current_port_name, \* self.current_port_name ("" for None)
    pm_open,            \* the port objects mido.open_input returned and nobody closed
    pm_created,         \* how many port objects mido.open_input has returned
    pm_named,           \* the port object whose name current_port_name holds
    pm_gui,             \* the GUI (main) thread inside open_port_by_name or shutdown
    pm_poll,            \* the polling thread inside _thread_main
    \* ---- SuperColliderSynthController called from two threads (gui_main.py)
    sc_threads,         \* per thread: the statement it is at and its locals
    sc_entries,         \* the entries array CPython keeps for poly_note_to_node, holes
                        \* included, in the runs in which two threads call the controller
    sc_usable,          \* the entries the table of poly_note_to_node has room for
    sc_calls,           \* how many calls the two threads have made on the controller
    sc_live,            \* the node ids sent "/s_new" and not sent gate=0 since
    sc_error            \* the exception the last statement on the controller raised,
                        \* and the method it left

sc_vars == <<poly_mode, max_voices, mono_node_id, mono_current_note,
             poly_note_to_node, sc_trace, sc_call>>

eng_vars == <<eng_server, eng_synth_group, eng_poly_mode, eng_global_params,
              eng_poly_voices, eng_mono_voice, eng_synths, eng_trace, eng_cmd,
              eng_pending>>

wk_vars == <<eng_running, eng_command_queue, eng_audio_device, wk_pc, gui_pc,
             wk_enqueued, wk_applied, eng_sounding, eng_access>>

dev_vars == <<dev_requested, dev_booted>>

md_vars == <<md_last>>

pm_vars == <<pm_running, pm_input_port, pm_current_port_name, pm_open, pm_created,
            pm_named, pm_gui, pm_poll>>

th_vars == <<sc_threads, sc_entries, sc_usable, sc_calls, sc_live, sc_error>>

aux_vars == <<dev_vars, md_vars, pm_vars, th_vars>>

\* aux_vars without one group
not_dev_vars == <<md_vars, pm_vars, th_vars>>

not_md_vars == <<dev_vars, pm_vars, th_vars>>

\* ... without pm_vars and without md_last, which the polling thread writes
not_pm_vars == <<dev_vars, th_vars>>

not_th_vars == <<dev_vars, md_vars, pm_vars>>

vars == <<backend, sc_vars, eng_vars, wk_vars, aux_vars>>

----------------------------------------------------------------------------
(* Bounds of the model.                                                     *)

\* max_voices is a constructor argument; the model constructs with 1..MaxVoicesMax.
MaxVoicesMax == 2

\* _generate_node_id draws from 1000..9999; the model draws from the first
\* NumNodeIds of them (so that two draws can collide, as they can in the code).
NumNodeIds == 2

\* The worker creates at most MaxSynths Synth objects in a run of the model.
MaxSynths == 3

\* The GUI and MIDI threads together make at most MaxCmds enqueuing calls
\* (shutdown not counted) in a run of the threaded model.
MaxCmds == 3

\* ... and at most MaxShutdownCmds in the runs in which termination is checked.
MaxShutdownCmds == 2

\* mido.open_input returns at most MaxPorts port objects in a run of the
\* MIDI manager.
MaxPorts == 3

\* The two threads make at most MaxThCalls calls on the controller in a run.
MaxThCalls == 5

\* The GUI thread calls reboot_audio() at most MaxReboots times in the runs
\* in which the audio device of each boot is followed.
MaxReboots == 2

----------------------------------------------------------------------------
(* Values.                                                                  *)

\* Python's None, for an Optional[int] holding a note (0..127) or a node id (>= 1000).
None == -1

\* The notes the callers play.
Notes == {60, 64, 67}

\* velocity <= 0 is a note-off; velocity > 0 a note-on.
Velocities == {0, 100}

NodeIdFirst == 1000

\* The polyphony limit the repository constructs its backend with by default.
DefaultMaxVoices == 8

NodeIds == NodeIdFirst .. (NodeIdFirst + NumNodeIds - 1)

\* Parameter names and values the GUI sliders send to the OSC backend.
ScParamNames == {"cutoff", "amp"}

ScParamValues == {0, 500}

\* 440.0 * 2.0 ** ((note - 69) / 12.0), in thousandths of a hertz, for the
\* notes of the model (and the two notes the specification quotes).
midi_note_to_freq(note) ==
    CASE note = 57 -> 220000
      [] note = 60 -> 261626
      [] note = 61 -> 277183
      [] note = 62 -> 293665
      [] note = 63 -> 311127
      [] note = 64 -> 329628
      [] note = 65 -> 349228
      [] note = 66 -> 369994
      [] note = 67 -> 391995
      [] note = 68 -> 415305
      [] note = 69 -> 440000

----------------------------------------------------------------------------
(* An insertion-ordered dict (Python's dict): a sequence of [k, v] records  *)
(* with pairwise distinct keys, oldest insertion first.                     *)

DictKeys(d) == { d[i].k : i \in 1 .. Len(d) }

DictHas(d, key) == key \in DictKeys(d)

\* d.get(key, None)
DictGet(d, key) ==
    IF DictHas(d, key)
    THEN LET i == CHOOSE j \in 1 .. Len(d) : d[j].k = key IN d[i].v
    ELSE None

\* d after d.pop(key, None)
DictPop(d, key) == SelectSeq(d, LAMBDA e : e.k # key)

\* d after d[key] = value: an existing key keeps its position, a new key goes last
DictSet(d, key, value) ==
    IF DictHas(d, key)
    THEN [i \in 1 .. Len(d) |-> IF d[i].k = key THEN [k |-> key, v |-> value] ELSE d[i]]
    ELSE Append(d, [k |-> key, v |-> value])

\* list(d.values()), in iteration (insertion) order
DictValues(d) == [i \in 1 .. Len(d) |-> d[i].v]

RECURSIVE SeqToSet(_)
SeqToSet(s) == IF s = <<>> THEN {} ELSE {Head(s)} \cup SeqToSet(Tail(s))

----------------------------------------------------------------------------
(* SuperColliderSynthController                                             *)

\* One entry of sc_trace.  op = "send": client.send_message(addr, [node, ctl, val])
\* (for "/s_new": ["pyAnalogVoice", node, 0, 1, ctl, val]).  The other ops are
\* the registry writes of the code: "clear_mono", "set_mono" (val = note),
\* "pop_poly" (val = note), "put_poly" (val = note), "clear_poly".
ScEvent(op, addr, node, ctl, val) ==
    [op |-> op, addr |-> addr, node |-> node, ctl |-> ctl, val |-> val]

\* self.client.send_message(addr, ...)
send_message(self, addr, node, ctl, val) ==
    [self EXCEPT !.trace = Append(@, ScEvent("send", addr, node, ctl, val))]

\* A clearing of the mono slot that forgets the node id but keeps the note.
clear_mono_keep_note(self) ==
    [self EXCEPT !.mono_node_id = None,
                 !.trace = Append(@, ScEvent("clear_mono", "", None, "", None))]

\* self.mono_node_id = None; self.mono_current_note = None
clear_mono(self) ==
    [self EXCEPT !.mono_node_id = None,
                 !.mono_current_note = None,
                 !.trace = Append(@, ScEvent("clear_mono", "", None, "", None))]

\* self.mono_node_id = node_id; self.mono_current_note = note
set_mono(self, node_id, note) ==
    [self EXCEPT !.mono_node_id = node_id,
                 !.mono_current_note = note,
                 !.trace = Append(@, ScEvent("set_mono", "", node_id, "", note))]

\* self.poly_note_to_node.pop(note, None)
pop_poly(self, note) ==
    IF DictHas(self.poly_note_to_node, note)
    THEN [self EXCEPT !.poly_note_to_node = DictPop(@, note),
                      !.trace = Append(@, ScEvent("pop_poly", "",
                                    DictGet(self.poly_note_to_node, note), "", note))]
    ELSE self

\* self.poly_note_to_node[note] = node_id
put_poly(self, note, node_id) ==
    [self EXCEPT !.poly_note_to_node = DictSet(@, note, node_id),
                 !.trace = Append(@, ScEvent("put_poly", "", node_id, "", note))]

\* for node_id in <ids>: self.client.send_message("/n_set", [node_id, ctl, val])
RECURSIVE send_each(_, _, _, _)
send_each(self, ids, ctl, val) ==
    IF ids = <<>> THEN self
    ELSE send_each(send_message(self, "/n_set", Head(ids), ctl, val), Tail(ids), ctl, val)

\* SuperColliderSynthController.set_poly_mode
set_poly_mode(self, enabled) == [self EXCEPT !.poly_mode = enabled]

\* A note_off_midi that releases the mono voice whatever note it tracks.
note_off_midi_any_note(self, note) ==
    IF ~self.poly_mode
    THEN IF self.mono_node_id # None
         THEN clear_mono(send_message(self, "/n_set", self.mono_node_id, "gate", 0))
         ELSE self
    ELSE LET node_id == DictGet(self.poly_note_to_node, note)
             s1 == pop_poly(self, note)
         IN  IF node_id # None
             THEN send_message(s1, "/n_set", node_id, "gate", 0)
             ELSE s1

\* SuperColliderSynthController.note_off_midi
note_off_midi(self, note) ==
    IF ~self.poly_mode
    THEN IF self.mono_node_id # None /\ self.mono_current_note = note
         THEN clear_mono(send_message(self, "/n_set", self.mono_node_id, "gate", 0))
         ELSE self
    ELSE LET node_id == DictGet(self.poly_note_to_node, note)
             s1 == pop_poly(self, note)
         IN  IF node_id # None
             THEN send_message(s1, "/n_set", node_id, "gate", 0)
             ELSE s1

\* A mono branch that keeps the sounding voice and only retunes it.
note_on_mono_reuse(self, note, node_id) ==
    IF self.mono_node_id # None
    THEN send_message(self, "/n_set", self.mono_node_id, "freq", midi_note_to_freq(note))
    ELSE send_message(set_mono(self, node_id, note),
                      "/s_new", node_id, "freq", midi_note_to_freq(note))

\* A mono branch that requests the new voice before it releases the old one.
note_on_mono_create_first(self, note, node_id) ==
    LET old_id == self.mono_node_id
        s1 == send_message(set_mono(self, node_id, note),
                           "/s_new", node_id, "freq", midi_note_to_freq(note))
    IN  IF old_id # None
        THEN send_message(s1, "/n_set", old_id, "gate", 0)
        ELSE s1

\* note_on_midi, the MONO MODE branch
note_on_mono(self, note, node_id) ==
    LET freq == midi_note_to_freq(note)
        s1 == IF self.mono_node_id # None
              THEN clear_mono(send_message(self, "/n_set", self.mono_node_id, "gate", 0))
              ELSE self
        s2 == set_mono(s1, node_id, note)
    IN  send_message(s2, "/s_new", node_id, "freq", freq)

\* A capacity test that lets the registry grow one past the limit.
at_max_voices_off_by_one(self) == Len(self.poly_note_to_node) > self.max_voices

\* len(self.poly_note_to_node) >= self.max_voices
at_max_voices(self) == Len(self.poly_note_to_node) >= self.max_voices

\* A steal victim chosen by note value (the lowest held note).
lowest_note(self) ==
    CHOOSE n \in DictKeys(self.poly_note_to_node) :
        \A m \in DictKeys(self.poly_note_to_node) : n <= m

\* next(iter(self.poly_note_to_node.keys()))
oldest_note(self) == self.poly_note_to_node[1].k

\* A retrigger that releases the old voice but leaves its entry in the dict.
retrigger_keep_entry(self, note) ==
    LET old_id == DictGet(self.poly_note_to_node, note)
    IN  IF old_id # None
        THEN send_message(self, "/n_set", old_id, "gate", 0)
        ELSE self

\* note_on_midi, POLY MODE: "Retrigger if already active"
retrigger(self, note) ==
    LET old_id == DictGet(self.poly_note_to_node, note)
        s1 == pop_poly(self, note)
    IN  IF old_id # None
        THEN send_message(s1, "/n_set", old_id, "gate", 0)
        ELSE s1

\* A steal that drops the oldest entry without releasing its voice.
steal_oldest_silent(self) ==
    IF at_max_voices(self)
    THEN pop_poly(self, oldest_note(self))
    ELSE self

\* note_on_midi, POLY MODE: "Steal oldest if at max_voices"
steal_oldest(self) ==
    IF at_max_voices(self)
    THEN LET oldest == oldest_note(self)
             oldest_id == DictGet(self.poly_note_to_node, oldest)
         IN  send_message(pop_poly(self, oldest), "/n_set", oldest_id, "gate", 0)
    ELSE self

\* note_on_midi, the POLY MODE branch
note_on_poly(self, note, node_id) ==
    LET freq == midi_note_to_freq(note)
        s2 == retrigger(self, note)
        s3 == steal_oldest(s2)
        s4 == put_poly(s3, note, node_id)
    IN  send_message(s4, "/s_new", node_id, "freq", freq)

\* A note_on_midi without the velocity test.
note_on_midi_any_velocity(self, note, velocity, node_id) ==
    IF ~self.poly_mode
    THEN note_on_mono(self, note, node_id)
    ELSE note_on_poly(self, note, node_id)

\* SuperColliderSynthController.note_on_midi; node_id is what _generate_node_id returns
note_on_midi(self, note, velocity, node_id) ==
    IF velocity <= 0
    THEN note_off_midi(self, note)
    ELSE IF ~self.poly_mode
         THEN note_on_mono(self, note, node_id)
         ELSE note_on_poly(self, note, node_id)

\* A note_off_all that releases only the voices of the selected mode.
note_off_all_selected_mode(self) ==
    IF ~self.poly_mode
    THEN IF self.mono_node_id # None
         THEN clear_mono(send_message(self, "/n_set", self.mono_node_id, "gate", 0))
         ELSE self
    ELSE LET s2 == send_each(self, DictValues(self.poly_note_to_node), "gate", 0)
         IN  [s2 EXCEPT !.poly_note_to_node = <<>>,
                        !.trace = Append(@, ScEvent("clear_poly", "", None, "", None))]

\* SuperColliderSynthController.note_off_all
note_off_all(self) ==
    LET s1 == IF self.mono_node_id # None
              THEN clear_mono(send_message(self, "/n_set", self.mono_node_id, "gate", 0))
              ELSE self
        s2 == send_each(s1, DictValues(s1.poly_note_to_node), "gate", 0)
    IN  [s2 EXCEPT !.poly_note_to_node = <<>>,
                   !.trace = Append(@, ScEvent("clear_poly", "", None, "", None))]

\* A set_param that, finding no voice in the selected mode, sends the value
\* to the default group (node 1) the voices are created in.
set_param_default_group(self, name, value) ==
    IF ~self.poly_mode
    THEN send_message(self, "/n_set",
                      IF self.mono_node_id = None THEN 1 ELSE self.mono_node_id,
                      name, value)
    ELSE IF self.poly_note_to_node = <<>>
         THEN send_message(self, "/n_set", 1, name, value)
         ELSE send_each(self, DictValues(self.poly_note_to_node), name, value)

\* SuperColliderSynthController.set_param
set_param(self, name, value) ==
    IF ~self.poly_mode
    THEN IF self.mono_node_id = None
         THEN self
         ELSE send_message(self, "/n_set", self.mono_node_id, name, value)
    ELSE IF self.poly_note_to_node = <<>>
         THEN self
         ELSE send_each(self, DictValues(self.poly_note_to_node), name, value)

\* The controller object as the methods see it on entry to a call.
ScSelf ==
    [poly_mode |-> poly_mode, max_voices |-> max_voices,
     mono_node_id |-> mono_node_id, mono_current_note |-> mono_current_note,
     poly_note_to_node |-> poly_note_to_node, trace |-> <<>>]

\* The controller object after a call returned r.
ScReturn(r) ==
    /\ poly_mode' = r.poly_mode
    /\ max_voices' = r.max_voices
    /\ mono_node_id' = r.mono_node_id
    /\ mono_current_note' = r.mono_current_note
    /\ poly_note_to_node' = r.poly_note_to_node
    /\ sc_trace' = r.trace
    /\ UNCHANGED <<backend, eng_vars, wk_vars, aux_vars>>

\* SuperColliderSynthController.__init__
ScInit ==
    /\ poly_mode = FALSE
    /\ max_voices \in 1 .. MaxVoicesMax
    /\ mono_node_id = None
    /\ mono_current_note = None
    /\ poly_note_to_node = <<>>
    /\ sc_trace = <<>>
    /\ sc_call = [op |-> "init"]

\* The other backend was constructed: this one does not exist.
ScAbsent ==
    /\ poly_mode = FALSE
    /\ max_voices = 1
    /\ mono_node_id = None
    /\ mono_current_note = None
    /\ poly_note_to_node = <<>>
    /\ sc_trace = <<>>
    /\ sc_call = [op |-> "absent"]

\* A caller (GUI or MIDI layer) calls set_poly_mode(enabled).
ScSetPolyMode ==
    /\ backend = "sc"
    /\ \E enabled \in BOOLEAN :
          /\ ScReturn(set_poly_mode(ScSelf, enabled))
          /\ sc_call' = [op |-> "set_poly_mode", enabled |-> enabled]

\* A caller calls note_on_midi(note, velocity); node_id is the draw of
\* _generate_node_id, which is made only when velocity > 0.
ScNoteOn ==
    /\ backend = "sc"
    /\ \E note \in Notes, velocity \in Velocities :
          \E node_id \in (IF velocity <= 0 THEN {None} ELSE NodeIds) :
             /\ ScReturn(note_on_midi(ScSelf, note, velocity, node_id))
             /\ sc_call' = [op |-> "note_on_midi", note |-> note,
                            velocity |-> velocity, node_id |-> node_id]

\* A caller calls note_off_midi(note).
ScNoteOff ==
    /\ backend = "sc"
    /\ \E note \in Notes :
          /\ ScReturn(note_off_midi(ScSelf, note))
          /\ sc_call' = [op |-> "note_off_midi", note |-> note]

\* A caller calls note_off_all().
ScNoteOffAll ==
    /\ backend = "sc"
    /\ ScReturn(note_off_all(ScSelf))
    /\ sc_call' = [op |-> "note_off_all"]

\* A caller calls set_param(name, value).
ScSetParam ==
    /\ backend = "sc"
    /\ \E name \in ScParamNames, value \in ScParamValues :
          /\ ScReturn(set_param(ScSelf, name, value))
          /\ sc_call' = [op |-> "set_param", name |-> name, value |-> value]

----------------------------------------------------------------------------
(* SuperColliderSynthController when client.send_message can raise.  No     *)
(* method catches anything: the exception leaves the method at the failing  *)
(* send, with the registry writes made before it done and the later ones    *)
(* not made.                                                                *)

\* How many send_message calls `trace` holds.
NumSends(trace) == Len(SelectSeq(trace, LAMBDA e : e.op = "send"))

\* The part of `trace` the method got through when its k-th send raised:
\* everything up to and including that send.
RECURSIVE UpToSend(_, _)
UpToSend(trace, k) ==
    IF trace = <<>> \/ k = 0 THEN <<>>
    ELSE <<Head(trace)>>
         \o UpToSend(Tail(trace), IF Head(trace).op = "send" THEN k - 1 ELSE k)

\* The registry write (or the send, which writes nothing) of one trace entry.
apply_event(self, e) ==
    LET s1 == [self EXCEPT !.trace = Append(@, e)]
    IN  CASE e.op = "clear_mono" ->
                [s1 EXCEPT !.mono_node_id = None, !.mono_current_note = None]
          [] e.op = "set_mono" ->
                [s1 EXCEPT !.mono_node_id = e.node, !.mono_current_note = e.val]
          [] e.op = "pop_poly" ->
                [s1 EXCEPT !.poly_note_to_node = DictPop(@, e.val)]
          [] e.op = "put_poly" ->
                [s1 EXCEPT !.poly_note_to_node = DictSet(@, e.val, e.node)]
          [] e.op = "clear_poly" ->
                [s1 EXCEPT !.poly_note_to_node = <<>>]
          [] OTHER -> s1

RECURSIVE apply_events(_, _)
apply_events(self, events) ==
    IF events = <<>> THEN self
    ELSE apply_events(apply_event(self, Head(events)), Tail(events))

\* The controller after a call that would have run as r.trace had no send
\* failed, and whose k-th send raised (k = 0: none did).
raise_at(self, r, k) ==
    IF k = 0 THEN r ELSE apply_events(self, UpToSend(r.trace, k))

\* The call `call` on the controller, every send succeeding.
ScResult(self, call) ==
    CASE call.op = "note_on_midi" ->
            note_on_midi(self, call.note, call.velocity, call.node_id)
      [] call.op = "note_off_midi" -> note_off_midi(self, call.note)
      [] call.op = "note_off_all" -> note_off_all(self)
      [] call.op = "set_param" -> set_param(self, call.name, call.value)
      [] OTHER -> self

\* A caller makes `call`; one of its sends may raise, and then the exception
\* reaches the caller.
ScfCall(call) ==
    LET r == ScResult(ScSelf, call)
    IN  \E k \in 0 .. NumSends(r.trace) :
           /\ ScReturn(raise_at(ScSelf, r, k))
           /\ sc_call' = [raised |-> k > 0] @@ call

ScfNoteOn ==
    /\ backend = "sc"
    /\ \E note \in Notes, velocity \in Velocities :
          \E node_id \in (IF velocity <= 0 THEN {None} ELSE NodeIds) :
             ScfCall([op |-> "note_on_midi", note |-> note,
                      velocity |-> velocity, node_id |-> node_id])

ScfNoteOff ==
    /\ backend = "sc"
    /\ \E note \in Notes : ScfCall([op |-> "note_off_midi", note |-> note])

ScfNoteOffAll ==
    /\ backend = "sc"
    /\ ScfCall([op |-> "note_off_all"])

ScfSetParam ==
    /\ backend = "sc"
    /\ \E name \in ScParamNames, value \in ScParamValues :
          ScfCall([op |-> "set_param", name |-> name, value |-> value])

----------------------------------------------------------------------------
(* PeppermintSynthEngine: the worker thread's handlers                      *)

\* The notes and velocities of the note_on / note_off commands.
EngNotes == {60, 64}

EngVelocities == {0, 100}

\* The names and values of the set_param commands: "amp" is in every
\* parameter store, "detune" only in the store _thread_main builds,
\* "vco1_tune" only in the store _boot_server_locked builds, "volume" in none.
EngParamNames == {"amp", "detune", "vco1_tune", "volume"}

EngParamValues == {0, 500}

\* self._global_params as _thread_main initialises it
ThreadMainParams ==
    [vco_mix |-> 500, vco1_wave |-> 0, vco2_wave |-> 0, detune |-> 1010,
     cutoff |-> 1200000, res |-> 200, env_amt |-> 500, noise_mix |-> 0,
     lfo_freq |-> 5000, lfo_depth |-> 0, lfo_target |-> 0,
     atk |-> 10, dec |-> 100, sus |-> 700, rel |-> 300, amp |-> 200]

\* self._global_params as _boot_server_locked initialises it
BootServerParams ==
    [vco_mix |-> 500, vco1_wave |-> 0, vco2_wave |-> 0, vco1_tune |-> 0,
     vco2_tune |-> 0, vco2_detune |-> 0, noise_mix |-> 0, cutoff |-> 1000000,
     res |-> 200, env_amt |-> 500, lfo_freq |-> 5000, lfo_depth |-> 0,
     lfo_target |-> 0, atk |-> 10, dec |-> 100, sus |-> 700, rel |-> 300,
     amp |-> 200]

\* PeppermintSynthEngine._midi_to_hz, in thousandths of a hertz
midi_to_hz(midi_note) == midi_note_to_freq(midi_note)

\* max(0.0, min(1.0, velocity / 127.0)) * base_amp, in thousandths (rounded down)
ScaledAmp(velocity, base_amp) ==
    LET v == IF velocity < 0 THEN 0 ELSE IF velocity > 127 THEN 127 ELSE velocity
    IN  (v * base_amp) \div 127

\* One entry of eng_trace: op = "add_synth" (group.add_synth(**controls) returned
\* `voice`), "set" (voice.set(**controls)), "free_group", "quit_server", "boot".
EngEvent(op, voice, controls) == [op |-> op, voice |-> voice, controls |-> controls]

NoControls == [k \in {} |-> 0]

\* voice.set(**controls), inside try/except
voice_set(eng, voice, controls) ==
    [eng EXCEPT !.trace = Append(@, EngEvent("set", voice, controls))]

\* for voice in <voices>: voice.set(**controls)
RECURSIVE voice_set_each(_, _, _)
voice_set_each(eng, voices, controls) ==
    IF voices = <<>> THEN eng
    ELSE voice_set_each(voice_set(eng, Head(voices), controls), Tail(voices), controls)

\* self._synth_group.add_synth(synthdef=peppermint_voice, **controls): a new Synth
add_synth(eng, controls) ==
    [eng EXCEPT !.synths = @ + 1,
                !.trace = Append(@, EngEvent("add_synth", eng.synths + 1, controls))]

\* A set_param handler that returns before storing when no voice is registered.
handle_set_param_voices_only(eng, name, value) ==
    IF name \notin DOMAIN eng.global_params
    THEN eng
    ELSE IF eng.mono_voice = None /\ eng.poly_voices = <<>>
    THEN eng
    ELSE LET s1 == [eng EXCEPT !.global_params[name] = value]
             s2 == IF s1.mono_voice # None
                   THEN voice_set(s1, s1.mono_voice, [k \in {name} |-> value])
                   ELSE s1
         IN  voice_set_each(s2, DictValues(s2.poly_voices), [k \in {name} |-> value])

\* A set_param handler without the known-name test: any name is stored and forwarded.
handle_set_param_any_name(eng, name, value) ==
    LET s1 == [eng EXCEPT !.global_params =
                   [k \in DOMAIN eng.global_params \cup {name} |->
                       IF k = name THEN value ELSE eng.global_params[k]]]
        s2 == IF s1.mono_voice # None
              THEN voice_set(s1, s1.mono_voice, [k \in {name} |-> value])
              ELSE s1
    IN  voice_set_each(s2, DictValues(s2.poly_voices), [k \in {name} |-> value])

\* PeppermintSynthEngine._handle_set_param
handle_set_param(eng, name, value) ==
    IF name \notin DOMAIN eng.global_params
    THEN eng
    ELSE LET s1 == [eng EXCEPT !.global_params[name] = value]
             s2 == IF s1.mono_voice # None
                   THEN voice_set(s1, s1.mono_voice, [k \in {name} |-> value])
                   ELSE s1
         IN  voice_set_each(s2, DictValues(s2.poly_voices), [k \in {name} |-> value])

\* controls = dict(self._global_params); controls.update({frequency, amp, gate})
NoteOnControls(eng, midi_note, velocity) ==
    LET frequency == midi_to_hz(midi_note)
        base_amp == IF "amp" \in DOMAIN eng.global_params
                    THEN eng.global_params["amp"] ELSE 200
        amp == ScaledAmp(velocity, base_amp)
    IN  [k \in DOMAIN eng.global_params \cup {"frequency", "amp", "gate"} |->
            CASE k = "frequency" -> frequency
              [] k = "amp" -> amp
              [] k = "gate" -> 1000
              [] OTHER -> eng.global_params[k]]

\* A note-on handler that tests the server only, not the synth group.
handle_note_on_server_only(eng, midi_note, velocity) ==
    IF ~eng.server
    THEN eng
    ELSE
    LET controls == NoteOnControls(eng, midi_note, velocity) IN
    IF eng.poly_mode
    THEN LET s1 == add_synth(eng, controls)
         IN  [s1 EXCEPT !.poly_voices = DictSet(@, midi_note, s1.synths)]
    ELSE IF eng.mono_voice = None
         THEN LET s1 == add_synth(eng, controls)
              IN  [s1 EXCEPT !.mono_voice = s1.synths]
         ELSE voice_set(eng, eng.mono_voice,
                        [k \in {"frequency", "amp", "gate"} |-> controls[k]])

\* PeppermintSynthEngine._handle_note_on
handle_note_on(eng, midi_note, velocity) ==
    IF ~eng.server \/ ~eng.synth_group
    THEN eng
    ELSE
    LET controls == NoteOnControls(eng, midi_note, velocity) IN
    IF eng.poly_mode
    THEN LET s1 == add_synth(eng, controls)
         IN  [s1 EXCEPT !.poly_voices = DictSet(@, midi_note, s1.synths)]
    ELSE IF eng.mono_voice = None
         THEN LET s1 == add_synth(eng, controls)
              IN  [s1 EXCEPT !.mono_voice = s1.synths]
         ELSE voice_set(eng, eng.mono_voice,
                        [k \in {"frequency", "amp", "gate"} |-> controls[k]])

\* A note-off handler that gates the poly voice off but leaves its entry registered.
handle_note_off_keep_entry(eng, midi_note) ==
    IF eng.poly_mode
    THEN LET voice == DictGet(eng.poly_voices, midi_note)
         IN  IF voice # None
             THEN voice_set(eng, voice, [k \in {"gate"} |-> 0])
             ELSE eng
    ELSE IF eng.mono_voice # None
         THEN voice_set(eng, eng.mono_voice, [k \in {"gate"} |-> 0])
         ELSE eng

\* PeppermintSynthEngine._handle_note_off
handle_note_off(eng, midi_note) ==
    IF eng.poly_mode
    THEN LET voice == DictGet(eng.poly_voices, midi_note)
             s1 == [eng EXCEPT !.poly_voices = DictPop(@, midi_note)]
         IN  IF voice # None
             THEN voice_set(s1, voice, [k \in {"gate"} |-> 0])
             ELSE s1
    ELSE IF eng.mono_voice # None
         THEN voice_set(eng, eng.mono_voice, [k \in {"gate"} |-> 0])
         ELSE eng

\* PeppermintSynthEngine._handle_note_off_all
handle_note_off_all(eng) ==
    LET s1 == voice_set_each(eng, DictValues(eng.poly_voices), [k \in {"gate"} |-> 0])
        s2 == [s1 EXCEPT !.poly_voices = <<>>]
    IN  IF s2.mono_voice # None
        THEN [voice_set(s2, s2.mono_voice, [k \in {"gate"} |-> 0])
                 EXCEPT !.mono_voice = None]
        ELSE s2

\* What a boot can do once Server().boot() has returned: fail in
\* add_synthdefs/sync, fail in add_group, or succeed.
InstallOutcomes == {"synthdef_failed", "group_failed", "booted"}

\* A reboot that frees the group without releasing the voices first.
boot_release_keep_voices(eng) ==
    [eng EXCEPT !.synth_group = FALSE,
                !.trace = IF eng.synth_group
                          THEN Append(@, EngEvent("free_group", None, NoControls))
                          ELSE @,
                !.pc = "boot_quit"]

\* A reboot that re-creates the parameter defaults before it boots, so also
\* when the boot then fails.
boot_release_params_first(eng) ==
    LET s1 == [handle_note_off_all(eng) EXCEPT !.global_params = BootServerParams]
    IN  [s1 EXCEPT !.synth_group = FALSE,
                   !.trace = IF s1.synth_group
                             THEN Append(@, EngEvent("free_group", None, NoControls))
                             ELSE @,
                   !.pc = "boot_quit"]

\* _boot_server_locked up to the call of self._server.quit(): the voices are
\* released, the group is freed and cleared.
boot_release(eng) ==
    LET s1 == handle_note_off_all(eng)
    IN  [s1 EXCEPT !.synth_group = FALSE,
                   !.trace = IF s1.synth_group
                             THEN Append(@, EngEvent("free_group", None, NoControls))
                             ELSE @,
                   !.pc = "boot_quit"]

\* _boot_server_locked: self._server.quit() returns (or there was no server)
\* and `self._server = None`.
boot_quit(eng) ==
    [eng EXCEPT !.server = FALSE,
                !.trace = IF eng.server
                          THEN Append(@, EngEvent("quit_server", None, NoControls))
                          ELSE @,
                !.pc = "boot_options"]

\* _boot_server_locked where no audio device is stored: `options = None`.
boot_options_none(eng) == [eng EXCEPT !.pc = "boot_server"]

\* _boot_server_locked: supriya.Server(...).boot() returns and the server is
\* stored, or it raises: the message is printed and the method returns.
boot_boot(eng, returns) ==
    IF returns
    THEN [eng EXCEPT !.server = TRUE,
                     !.trace = Append(@, EngEvent("boot", None, NoControls)),
                     !.pc = "boot_install"]
    ELSE [eng EXCEPT !.server = FALSE, !.pc = "loop"]

\* _boot_server_locked after `self._server = server`: add_synthdefs and
\* sync, add_group, the parameter defaults; a failure of the first two
\* steps is printed and the method returns with the server kept.
boot_install(eng, outcome) ==
    CASE outcome = "synthdef_failed" -> [eng EXCEPT !.pc = "loop"]
      [] outcome = "group_failed" -> [eng EXCEPT !.synth_group = FALSE, !.pc = "loop"]
      [] outcome = "booted" -> [eng EXCEPT !.synth_group = TRUE,
                                           !.global_params = BootServerParams,
                                           !.pc = "loop"]

\* _thread_main, its first two lines: supriya.Server().boot() returns and the
\* server is stored, or it raises; the call is not inside a try, so the
\* exception ends _thread_main and with it the worker thread.
thread_main_boot(eng, returns) ==
    IF returns
    THEN [eng EXCEPT !.server = TRUE,
                     !.trace = Append(@, EngEvent("boot", None, NoControls)),
                     !.pc = "startup_install"]
    ELSE [eng EXCEPT !.pc = "startup_crashed"]

\* _thread_main from add_synthdefs to the parameter defaults; add_synthdefs,
\* sync and add_group are not inside a try either.
thread_main_install(eng, outcome) ==
    CASE outcome = "synthdef_failed" -> [eng EXCEPT !.pc = "startup_crashed"]
      [] outcome = "group_failed" -> [eng EXCEPT !.pc = "startup_crashed"]
      [] outcome = "booted" -> [eng EXCEPT !.synth_group = TRUE,
                                           !.global_params = ThreadMainParams,
                                           !.pc = "loop"]

\* A mode switch that also releases every voice.
thread_main_set_poly_mode_release(eng, is_poly) ==
    [handle_note_off_all(eng) EXCEPT !.poly_mode = is_poly]

\* The `set_poly_mode` branch of _thread_main
thread_main_set_poly_mode(eng, is_poly) == [eng EXCEPT !.poly_mode = is_poly]

\* The engine as the worker sees it when it takes a command off the queue.
EngSelf ==
    [server |-> eng_server, synth_group |-> eng_synth_group,
     poly_mode |-> eng_poly_mode, global_params |-> eng_global_params,
     poly_voices |-> eng_poly_voices, mono_voice |-> eng_mono_voice,
     synths |-> eng_synths, trace |-> <<>>, pc |-> wk_pc]

\* The engine after the worker handled command cmd with result r.
EngAssign(r, cmd) ==
    /\ eng_server' = r.server
    /\ eng_synth_group' = r.synth_group
    /\ eng_poly_mode' = r.poly_mode
    /\ eng_global_params' = r.global_params
    /\ eng_poly_voices' = r.poly_voices
    /\ eng_mono_voice' = r.mono_voice
    /\ eng_synths' = r.synths
    /\ eng_trace' = r.trace
    /\ eng_cmd' = cmd
    /\ wk_pc' = r.pc
    /\ UNCHANGED <<backend, sc_vars, eng_running, eng_command_queue,
                   eng_audio_device, gui_pc, wk_enqueued, wk_applied,
                   eng_sounding, eng_access, aux_vars>>

\* ... in a run in which the worker creates at most MaxSynths voices.
EngReturn(r, cmd) ==
    /\ r.synths <= MaxSynths
    /\ EngAssign(r, cmd)

\* No voice is registered: no mono voice and no poly voice.
EngNoVoice == eng_mono_voice = None /\ eng_poly_voices = <<>>

\* eng_pending without the stores of `name`
PendingWithout(name) == { p \in eng_pending : p[1] # name }

\* The empty dict
NoParams == [name \in {} |-> 0]

\* PeppermintSynthEngine.__init__: no server, no group, an empty parameter
\* store, no voice; the worker thread it starts has yet to boot the server.
EngInit ==
    /\ eng_server = FALSE
    /\ eng_synth_group = FALSE
    /\ eng_poly_mode = FALSE
    /\ eng_global_params = NoParams
    /\ eng_poly_voices = <<>>
    /\ eng_mono_voice = None
    /\ eng_synths = 0
    /\ eng_trace = <<>>
    /\ eng_cmd = <<"init">>
    /\ eng_pending = {}

\* The other backend was constructed: no engine exists.
EngAbsent ==
    /\ eng_server = FALSE
    /\ eng_synth_group = FALSE
    /\ eng_poly_mode = FALSE
    /\ eng_global_params = NoParams
    /\ eng_poly_voices = <<>>
    /\ eng_mono_voice = None
    /\ eng_synths = 0
    /\ eng_trace = <<>>
    /\ eng_cmd = <<"absent">>
    /\ eng_pending = {}

\* The worker thread is in its command loop.
EngInLoop == backend = "engine" /\ wk_pc = "loop"

\* The worker thread starts: supriya.Server().boot() returns, or raises and
\* ends the thread.
EngStartupBoot ==
    /\ backend = "engine"
    /\ wk_pc = "startup"
    /\ \E returns \in BOOLEAN :
          EngAssign(thread_main_boot(EngSelf, returns), <<"startup">>)
    /\ UNCHANGED eng_pending

\* ... then installs the SynthDef, syncs, creates the group and the
\* parameter defaults, or is ended by the exception of one of these calls.
EngStartupInstall ==
    /\ backend = "engine"
    /\ wk_pc = "startup_install"
    /\ \E outcome \in InstallOutcomes :
          EngAssign(thread_main_install(EngSelf, outcome), <<"startup">>)
    /\ UNCHANGED eng_pending

\* The worker takes ("set_poly_mode", is_poly) off the queue.
EngSetPolyMode ==
    /\ EngInLoop
    /\ \E is_poly \in BOOLEAN :
          EngReturn(thread_main_set_poly_mode(EngSelf, is_poly), <<"set_poly_mode", is_poly>>)
    /\ UNCHANGED eng_pending

\* The worker takes ("set_param", name, value) off the queue.
EngSetParam ==
    /\ EngInLoop
    /\ \E name \in EngParamNames, value \in EngParamValues :
          /\ EngReturn(handle_set_param(EngSelf, name, value), <<"set_param", name, value>>)
          /\ eng_pending' =
                IF name \notin DOMAIN eng_global_params THEN eng_pending
                ELSE IF EngNoVoice THEN PendingWithout(name) \cup {<<name, value>>}
                ELSE PendingWithout(name)

\* The worker takes ("note_on", midi_note, velocity) off the queue.
EngNoteOn ==
    /\ EngInLoop
    /\ \E midi_note \in EngNotes, velocity \in EngVelocities :
          EngReturn(handle_note_on(EngSelf, midi_note, velocity),
                    <<"note_on", midi_note, velocity>>)
    /\ eng_pending' = IF eng_synths' # eng_synths THEN {} ELSE eng_pending

\* The worker takes ("note_off", midi_note) off the queue.
EngNoteOff ==
    /\ EngInLoop
    /\ \E midi_note \in EngNotes :
          EngReturn(handle_note_off(EngSelf, midi_note), <<"note_off", midi_note>>)
    /\ UNCHANGED eng_pending

\* The worker takes ("note_off_all",) off the queue.
EngNoteOffAll ==
    /\ EngInLoop
    /\ EngReturn(handle_note_off_all(EngSelf), <<"note_off_all">>)
    /\ UNCHANGED eng_pending

\* The worker takes ("reboot",) off the queue: _boot_server_locked releases
\* the voices, frees the group and calls quit() on the old server.
EngReboot ==
    /\ EngInLoop
    /\ EngReturn(boot_release(EngSelf), <<"reboot">>)
    /\ eng_pending' = {}

\* The old server has quit.
EngBootQuit ==
    /\ backend = "engine"
    /\ wk_pc = "boot_quit"
    /\ EngAssign(boot_quit(EngSelf), <<"reboot">>)
    /\ UNCHANGED eng_pending

\* No device was stored (set_audio_device is not called in this view).
EngBootOptions ==
    /\ backend = "engine"
    /\ wk_pc = "boot_options"
    /\ EngAssign(boot_options_none(EngSelf), <<"reboot">>)
    /\ UNCHANGED eng_pending

\* supriya.Server().boot() returns or raises.
EngBootServer ==
    /\ backend = "engine"
    /\ wk_pc = "boot_server"
    /\ \E returns \in BOOLEAN : EngAssign(boot_boot(EngSelf, returns), <<"reboot">>)
    /\ UNCHANGED eng_pending

\* The SynthDef is installed and synced, the group and the defaults created.
EngBootInstall ==
    /\ backend = "engine"
    /\ wk_pc = "boot_install"
    /\ \E outcome \in InstallOutcomes :
          EngAssign(boot_install(EngSelf, outcome), <<"reboot">>)
    /\ UNCHANGED eng_pending

----------------------------------------------------------------------------
(* PeppermintSynthEngine: a player who holds down more and more keys        *)

\* The keys of the player: one more than the default polyphony limit.
KeysNotes == 60 .. (60 + DefaultMaxVoices)

\* The lowest key the player does not hold (past the last key if all are held).
NextKey ==
    IF KeysNotes \subseteq DictKeys(eng_poly_voices)
    THEN 60 + DefaultMaxVoices + 1
    ELSE CHOOSE n \in KeysNotes \ DictKeys(eng_poly_voices) :
            \A m \in KeysNotes \ DictKeys(eng_poly_voices) : n <= m

\* The worker takes ("set_poly_mode", is_poly) off the queue.
KeysSetPolyMode ==
    /\ EngInLoop
    /\ \E is_poly \in BOOLEAN :
          EngAssign(thread_main_set_poly_mode(EngSelf, is_poly), <<"set_poly_mode", is_poly>>)
    /\ UNCHANGED eng_pending

\* The worker takes the note_on of the next key up, or of a key already
\* held, off the queue; it creates at most as many voices as there are keys.
KeysNoteOn ==
    /\ EngInLoop
    /\ \E midi_note \in KeysNotes :
          /\ midi_note <= NextKey
          /\ LET r == handle_note_on(EngSelf, midi_note, 100)
             IN  /\ r.synths <= Cardinality(KeysNotes)
                 /\ EngAssign(r, <<"note_on", midi_note, 100>>)
    /\ eng_pending' = IF eng_synths' # eng_synths THEN {} ELSE eng_pending

\* The worker takes ("note_off_all",) off the queue.
KeysNoteOffAll ==
    /\ EngInLoop
    /\ EngAssign(handle_note_off_all(EngSelf), <<"note_off_all">>)
    /\ UNCHANGED eng_pending

----------------------------------------------------------------------------
(* PeppermintSynthEngine: the GUI thread, the MIDI thread and the worker    *)
(* thread around self._command_queue                                        *)

\* The arguments the callers pass in the threaded model.
WkNotes == {60}

WkVelocities == {100}

WkParamNames == {"amp"}

WkParamValues == {500}

WkDevices == {"", "PipeWire"}

\* A thread touches a field of the engine object.
access(self, thread, field, kind) ==
    [self EXCEPT !.access = @ \cup {<<thread, field, kind>>}]

\* self._command_queue.put(cmd), called by `thread`; `by` and `seq` identify
\* the call (the seq-th put of that thread) and are not part of the tuple.
queue_put(self, thread, cmd) ==
    LET entry == [cmd |-> cmd, by |-> thread,
                  seq |-> 1 + Cardinality({ i \in 1 .. Len(self.enqueued) :
                                              self.enqueued[i].by = thread })]
    IN  [access(self, thread, "_command_queue", "put")
            EXCEPT !.command_queue = Append(@, entry),
                   !.enqueued = Append(@, entry)]

\* A queue that hands out the newest entry first.
queue_get_newest(q) == [entry |-> q[Len(q)], rest |-> SubSeq(q, 1, Len(q) - 1)]

\* self._command_queue.get(timeout=0.1) on a non-empty queue
queue_get(q) == [entry |-> Head(q), rest |-> Tail(q)]

\* self._command_queue.get(timeout=0.1) raises queue.Empty
queue_get_times_out(q) == q = <<>>

\* A set_poly_mode that writes the mode flag from the calling thread.
api_set_poly_mode_direct(self, thread, is_poly) ==
    [access(self, thread, "_poly_mode", "write") EXCEPT !.poly_mode = is_poly]

\* PeppermintSynthEngine.set_poly_mode
api_set_poly_mode(self, thread, is_poly) ==
    queue_put(self, thread, <<"set_poly_mode", is_poly>>)

\* PeppermintSynthEngine.set_param
api_set_param(self, thread, name, value) ==
    queue_put(self, thread, <<"set_param", name, value>>)

\* PeppermintSynthEngine.note_on
api_note_on(self, thread, midi_note, velocity) ==
    queue_put(self, thread, <<"note_on", midi_note, velocity>>)

\* PeppermintSynthEngine.note_off
api_note_off(self, thread, midi_note) ==
    queue_put(self, thread, <<"note_off", midi_note>>)

\* PeppermintSynthEngine.note_off_all
api_note_off_all(self, thread) == queue_put(self, thread, <<"note_off_all">>)

\* PeppermintSynthEngine.shutdown, first statement: self._running = False
api_shutdown_flag(self, thread) ==
    [access(self, thread, "_running", "write") EXCEPT !.running = FALSE]

\* PeppermintSynthEngine.shutdown, second statement: put(("shutdown",))
api_shutdown_put(self, thread) == queue_put(self, thread, <<"shutdown">>)

\* PeppermintSynthEngine.set_audio_device
api_set_audio_device(self, thread, device) ==
    [access(self, thread, "_audio_device", "write") EXCEPT !.audio_device = device]

\* PeppermintSynthEngine.reboot_audio
api_reboot_audio(self, thread) ==
    LET s1 == access(self, thread, "_running", "read")
    IN  IF ~s1.running
        THEN s1
        ELSE [queue_put(s1, thread, <<"reboot">>)
                 EXCEPT !.requested = Append(@, s1.audio_device)]

\* PeppermintSynthEngine.is_server_running (its result is eng_server)
api_is_server_running(self, thread) == access(self, thread, "_server", "read")

\* A loop that only the shutdown command ends: `while True`.
thread_main_while_true(self) ==
    [access(self, "worker", "_running", "read") EXCEPT !.pc = "get"]

\* A loop test that leaves the loop only once the queue is empty too.
thread_main_while_drain(self) ==
    LET s1 == access(self, "worker", "_running", "read")
    IN  [s1 EXCEPT !.pc = IF s1.running \/ s1.command_queue # <<>>
                          THEN "get" ELSE "cleanup"]

\* _thread_main: `while self._running:`
thread_main_while(self) ==
    LET s1 == access(self, "worker", "_running", "read")
    IN  [s1 EXCEPT !.pc = IF s1.running THEN "get" ELSE "cleanup"]

\* A boot that configures the device stored when its reboot was requested.
read_audio_device_at_request(self, raises) ==
    [access(self, "worker", "_audio_device", "read")
        EXCEPT !.booted = Append(@, IF raises THEN ""
                                    ELSE self.requested[Len(self.booted) + 1]),
               !.pc = "boot_server"]

\* _boot_server_locked: `if self._audio_device:` builds ServerOptions and
\* sets options.device; when that raises, or no device is stored, options
\* is None and the server to boot is supriya.Server(), the default device.
\* `booted` lists the device each boot was configured with ("" = default).
read_audio_device(self, raises) ==
    [access(self, "worker", "_audio_device", "read")
        EXCEPT !.booted = Append(@, IF self.audio_device # "" /\ ~raises
                                    THEN self.audio_device ELSE ""),
               !.pc = "boot_server"]

\* _thread_main: the if/elif chain on kind = cmd[0]
thread_main_dispatch(self, cmd) ==
    CASE cmd[1] = "shutdown" -> [self EXCEPT !.pc = "cleanup"]
      [] cmd[1] = "reboot" -> boot_release(self)
      [] cmd[1] = "set_poly_mode" -> thread_main_set_poly_mode(self, cmd[2])
      [] cmd[1] = "set_param" -> handle_set_param(self, cmd[2], cmd[3])
      [] cmd[1] = "note_on" -> handle_note_on(self, cmd[2], cmd[3])
      [] cmd[1] = "note_off" -> handle_note_off(self, cmd[2])
      [] cmd[1] = "note_off_all" -> handle_note_off_all(self)
      [] OTHER -> self

\* _thread_main: one pass of the loop body that got a command from the queue,
\* up to the return of its handler; for ("reboot",) up to the point where
\* _boot_server_locked has cleared self._synth_group and calls quit().
thread_main_command(self) ==
    LET got == queue_get(self.command_queue)
        s1 == [self EXCEPT !.command_queue = got.rest,
                           !.applied = Append(@, got.entry),
                           !.pc = "loop"]
    IN  thread_main_dispatch(s1, got.entry.cmd)

\* _thread_main: queue.Empty was raised: `continue`
thread_main_empty(self) == [self EXCEPT !.pc = "loop"]

\* _thread_main: "Cleanup on exit"
thread_main_cleanup(self) ==
    LET s1 == handle_note_off_all(self)
        s2 == IF s1.synth_group
              THEN [s1 EXCEPT !.trace = Append(@, EngEvent("free_group", None, NoControls))]
              ELSE s1
        s3 == IF s2.server
              THEN [s2 EXCEPT !.trace = Append(@, EngEvent("quit_server", None, NoControls))]
              ELSE s2
    IN  [s3 EXCEPT !.pc = "done"]

\* The voices sounding after the engine calls of `trace`, made in order.
RECURSIVE SoundingAfter(_, _)
SoundingAfter(sounding, trace) ==
    IF trace = <<>> THEN sounding
    ELSE LET e == Head(trace)
             gated == e.op = "set" /\ "gate" \in DOMAIN e.controls
                      /\ e.controls["gate"] = 0
         IN  SoundingAfter(
                 CASE e.op = "add_synth" -> sounding \cup {e.voice}
                   [] gated -> sounding \ {e.voice}
                   [] OTHER -> sounding,
                 Tail(trace))

\* The whole engine object as a thread sees it when it makes a step.
WkSelf ==
    [server |-> eng_server, synth_group |-> eng_synth_group,
     poly_mode |-> eng_poly_mode, global_params |-> eng_global_params,
     poly_voices |-> eng_poly_voices, mono_voice |-> eng_mono_voice,
     synths |-> eng_synths, trace |-> <<>>,
     running |-> eng_running, command_queue |-> eng_command_queue,
     audio_device |-> eng_audio_device, pc |-> wk_pc,
     enqueued |-> wk_enqueued, applied |-> wk_applied, access |-> eng_access,
     requested |-> dev_requested, booted |-> dev_booted]

\* The engine object after a step of some thread left it as r.
WkAssign(r) ==
    /\ eng_server' = r.server
    /\ eng_synth_group' = r.synth_group
    /\ eng_poly_mode' = r.poly_mode
    /\ eng_global_params' = r.global_params
    /\ eng_poly_voices' = r.poly_voices
    /\ eng_mono_voice' = r.mono_voice
    /\ eng_synths' = r.synths
    /\ eng_running' = r.running
    /\ eng_command_queue' = r.command_queue
    /\ eng_audio_device' = r.audio_device
    /\ wk_pc' = r.pc
    /\ wk_enqueued' = r.enqueued
    /\ wk_applied' = r.applied
    /\ eng_access' = r.access
    /\ UNCHANGED <<backend, sc_vars, eng_pending>>

\* A step of the GUI or MIDI thread: the worker's last-command record stays.
WkCall(r) ==
    /\ WkAssign(r)
    /\ UNCHANGED <<eng_trace, eng_cmd, eng_sounding, aux_vars>>

\* A step of the worker thread that made the engine calls r.trace for cmd.
WkWork(r, cmd) ==
    /\ WkAssign(r)
    /\ eng_trace' = r.trace
    /\ eng_cmd' = cmd
    /\ eng_sounding' = SoundingAfter(eng_sounding, r.trace)
    /\ UNCHANGED aux_vars

----------------------------------------------------------------------------
(* MidiInputManager: the dispatch of one incoming message to the callbacks  *)
(* (peppermint_midi.py: _handle_message; midi_input.py: _midi_callback).    *)

\* msg.type of the messages a port delivers
MidiMsgTypes == {"note_on", "note_off", "control_change", "pitchwheel"}

MidiNotes == {60, 64}

\* msg.velocity: 0 is a note-off in MIDI semantics
MidiVelocities == {0, 1, 127}

MidiMessages == [type : MidiMsgTypes, note : MidiNotes, velocity : MidiVelocities]

\* One callback invocation: cb(note, velocity) for "note_on", cb(note) for "note_off".
MidiCall(cb, note, velocity) == [cb |-> cb, note |-> note, velocity |-> velocity]

\* What one dispatch did: the callbacks invoked in order, whether the one
\* invoked raised, and whether an exception left the dispatcher.
MidiDispatch(calls, cb_raises) ==
    [calls |-> calls, raised |-> cb_raises /\ calls # <<>>, propagated |-> FALSE]

\* A _handle_message that hands every note_on to note_on_cb.
handle_message_any_velocity(msg, has_on_cb, has_off_cb, cb_raises) ==
    IF msg.type = "note_on"
    THEN MidiDispatch(IF has_on_cb
                      THEN <<MidiCall("note_on", msg.note, msg.velocity)>>
                      ELSE <<>>, cb_raises)
    ELSE IF msg.type = "note_off"
         THEN MidiDispatch(IF has_off_cb
                           THEN <<MidiCall("note_off", msg.note, None)>>
                           ELSE <<>>, cb_raises)
         ELSE MidiDispatch(<<>>, cb_raises)

\* peppermint_midi.MidiInputManager._handle_message; has_on_cb is
\* `if self._note_on_cb:`, cb_raises whether the callback invoked raises
handle_message(msg, has_on_cb, has_off_cb, cb_raises) ==
    IF msg.type = "note_on"
    THEN IF msg.velocity > 0
         THEN MidiDispatch(IF has_on_cb
                           THEN <<MidiCall("note_on", msg.note, msg.velocity)>>
                           ELSE <<>>, cb_raises)
         ELSE MidiDispatch(IF has_off_cb
                           THEN <<MidiCall("note_off", msg.note, None)>>
                           ELSE <<>>, cb_raises)
    ELSE IF msg.type = "note_off"
         THEN MidiDispatch(IF has_off_cb
                           THEN <<MidiCall("note_off", msg.note, None)>>
                           ELSE <<>>, cb_raises)
         ELSE MidiDispatch(<<>>, cb_raises)

\* midi_input.MidiInputManager.open_port_by_name._midi_callback; a callback
\* that is None raises TypeError when called, inside the same try
midi_callback(msg, has_on_cb, has_off_cb, cb_raises) ==
    IF msg.type = "note_on"
    THEN IF msg.velocity > 0
         THEN IF has_on_cb
              THEN MidiDispatch(<<MidiCall("note_on", msg.note, msg.velocity)>>, cb_raises)
              ELSE MidiDispatch(<<>>, FALSE)
         ELSE IF has_off_cb
              THEN MidiDispatch(<<MidiCall("note_off", msg.note, None)>>, cb_raises)
              ELSE MidiDispatch(<<>>, FALSE)
    ELSE IF msg.type = "note_off"
         THEN IF has_off_cb
              THEN MidiDispatch(<<MidiCall("note_off", msg.note, None)>>, cb_raises)
              ELSE MidiDispatch(<<>>, FALSE)
         ELSE MidiDispatch(<<>>, FALSE)

\* md_last before any message arrived.
NoMessage ==
    [impl |-> "", msg |-> [type |-> "", note |-> None, velocity |-> None],
     has_on_cb |-> FALSE, has_off_cb |-> FALSE,
     calls |-> <<>>, raised |-> FALSE, propagated |-> FALSE]

\* md_last after implementation impl dispatched msg with outcome d.
MdDispatched(impl, msg, has_on_cb, has_off_cb, d) ==
    [impl |-> impl, msg |-> msg, has_on_cb |-> has_on_cb, has_off_cb |-> has_off_cb,
     calls |-> d.calls, raised |-> d.raised, propagated |-> d.propagated]

----------------------------------------------------------------------------
(* peppermint_midi.MidiInputManager: the port, as the GUI thread            *)
(* (open_port_by_name, shutdown) and the polling thread (_thread_main) read *)
(* and write it, one statement at a time.  A port object is a number, the   *)
(* k-th object mido.open_input returned being k.                            *)

\* The names the GUI passes to open_port_by_name ("" when the combo box is empty).
PmPortNames == {"", "USB MIDI"}

\* The messages a port delivers in the runs of the port model.
PmMessages == { msg \in MidiMessages : msg.type = "note_on" /\ msg.velocity = 127 }

\* A thread: where it is (pc), where it goes on after _close_current_port
\* (ret), and its locals `name` and `port`.
PmThread(pc, ret, name, port) == [pc |-> pc, ret |-> ret, name |-> name, port |-> port]

\* The manager object, with the open port objects.
PmSelf ==
    [running |-> pm_running, input_port |-> pm_input_port,
     current_port_name |-> pm_current_port_name,
     open |-> pm_open, created |-> pm_created, named |-> pm_named]

\* The pcs of a thread inside _close_current_port
PmClosePcs == {"close_test", "close_close", "close_port", "close_name"}

\* _close_current_port, one statement of it, made by thread th
close_current_port(self, th) ==
    CASE th.pc = "close_test" ->
            \* if self._input_port is not None:
            [self |-> self,
             th |-> [th EXCEPT !.pc = IF self.input_port # None
                                     THEN "close_close" ELSE "close_port"]]
      [] th.pc = "close_close" ->
            \* self._input_port.close(), inside try/except Exception: the
            \* field is read again; on None the AttributeError is swallowed
            [self |-> [self EXCEPT !.open = @ \ {self.input_port}],
             th |-> [th EXCEPT !.pc = "close_port"]]
      [] th.pc = "close_port" ->
            \* self._input_port = None
            [self |-> [self EXCEPT !.input_port = None],
             th |-> [th EXCEPT !.pc = "close_name"]]
      [] th.pc = "close_name" ->
            \* self.current_port_name = None
            [self |-> [self EXCEPT !.current_port_name = "", !.named = None],
             th |-> [th EXCEPT !.pc = th.ret]]

\* open_port_by_name: `if not name: self.current_port_name = None; return`
open_port_if_not_name(self, th) ==
    IF th.name = ""
    THEN [self |-> [self EXCEPT !.current_port_name = "", !.named = None],
          th |-> PmThread("idle", "", "", None)]
    ELSE [self |-> self, th |-> [th EXCEPT !.pc = "open_input"]]

\* open_port_by_name: `port = mido.open_input(name)`, which may raise
open_port_open_input(self, th, opened) ==
    IF opened
    THEN [self |-> [self EXCEPT !.created = @ + 1, !.open = @ \cup {self.created + 1}],
          th |-> [th EXCEPT !.pc = "set_port", !.port = self.created + 1]]
    ELSE [self |-> self, th |-> [th EXCEPT !.pc = "fail_name"]]

\* open_port_by_name, except branch: `self.current_port_name = None`
open_port_fail_name(self, th) ==
    [self |-> [self EXCEPT !.current_port_name = "", !.named = None],
     th |-> [th EXCEPT !.pc = "fail_port"]]

\* open_port_by_name, except branch: `self._input_port = None; return`
open_port_fail_port(self, th) ==
    [self |-> [self EXCEPT !.input_port = None],
     th |-> PmThread("idle", "", "", None)]

\* open_port_by_name: `self._input_port = port`
open_port_set_port(self, th) ==
    [self |-> [self EXCEPT !.input_port = th.port],
     th |-> [th EXCEPT !.pc = "set_name"]]

\* open_port_by_name: `self.current_port_name = name`
open_port_set_name(self, th) ==
    [self |-> [self EXCEPT !.current_port_name = th.name, !.named = th.port],
     th |-> PmThread("idle", "", "", None)]

\* shutdown: `self._running = False`
pm_shutdown_flag(self, th) ==
    [self |-> [self EXCEPT !.running = FALSE],
     th |-> [th EXCEPT !.pc = "join"]]

\* _thread_main: `while self._running:`, and after the loop _close_current_port()
pm_thread_main_while(self, th) ==
    [self |-> self,
     th |-> IF self.running
            THEN [th EXCEPT !.pc = "read"]
            ELSE [th EXCEPT !.pc = "close_test", !.ret = "done"]]

\* _thread_main: `port = self._input_port`, `if port is not None:`, else the sleep
pm_thread_main_read(self, th) ==
    [self |-> self,
     th |-> IF self.input_port # None
            THEN [th EXCEPT !.pc = "iter", !.port = self.input_port]
            ELSE [th EXCEPT !.pc = "loop", !.port = None]]

\* _thread_main: port.iter_pending() has no more messages; the sleep
pm_thread_main_sleep(self, th) ==
    [self |-> self, th |-> [th EXCEPT !.pc = "loop", !.port = None]]

\* _thread_main: `except (IOError, OSError): self._close_current_port()`;
\* th.port stays the port that raised until the handler is through
pm_thread_main_except(self, th) ==
    [self |-> self, th |-> [th EXCEPT !.pc = "close_test", !.ret = "error_handled"]]

\* _thread_main: the handler is through; the sleep
pm_thread_main_handled(self, th) ==
    [self |-> self, th |-> [th EXCEPT !.pc = "loop", !.port = None, !.ret = ""]]

\* _thread_main: port.iter_pending() raises an exception that is neither an
\* IOError nor an OSError: no handler catches it, it ends _thread_main and
\* with it the polling thread, and the port stays as it is.
pm_thread_main_raises(self, th) ==
    [self |-> self, th |-> [th EXCEPT !.pc = "crashed"]]

\* shutdown: `if self._thread is not None and self._thread.is_alive():
\* self._thread.join(timeout=1.0)`, then _close_current_port()
pm_shutdown_join(self, th) ==
    [self |-> self, th |-> PmThread("close_test", "closed", "", None)]

\* The manager constructed where no input port was there to auto-open, its
\* polling thread started.
PmIdle ==
    /\ pm_running = TRUE
    /\ pm_input_port = None
    /\ pm_current_port_name = ""
    /\ pm_open = {}
    /\ pm_created = 0
    /\ pm_named = None
    /\ pm_gui = PmThread("idle", "", "", None)
    /\ pm_poll = PmThread("loop", "", "", None)

----------------------------------------------------------------------------
(* SuperColliderSynthController called without a lock from the GUI thread   *)
(* and from mido's callback thread (gui_main.py: _setup_midi): a thread     *)
(* can be switched between any two accesses of the object, so each read of  *)
(* a field, each write, each dict operation and each send_message is a      *)
(* step of its own.                                                         *)

ThThreads == {"gui", "midi"}

\* The notes the two threads play.
ThNotes == {60, 64}

\* The slider the GUI thread moves: set_param("cutoff", 0.5)
ThParamName == "cutoff"

ThParamValue == 500

\* CPython (Objects/dictobject.c) keeps the entries of a dict in an array, in
\* insertion order, inside a table of a power-of-two size that has room for
\* two thirds of that many entries: pop() leaves a hole; d[key] = value
\* overwrites the entry of a key that is there and appends the entry of a
\* new key; an insertion that finds the room used up (the holes count) first
\* moves the entries, without the holes, into a new table sized for three
\* times the keys the dict holds; clear() leaves the empty table, which has
\* no room at all.

\* USABLE_FRACTION(n): the entries a table of n slots has room for
USABLE_FRACTION(n) == (2 * n) \div 3

\* calculate_log2_keysize(minsize), as the table size it stands for: the
\* smallest power of two above (minsize | 8) - 1
calculate_keysize(minsize) ==
    LET m == (IF minsize % 16 >= 8 THEN minsize ELSE minsize + 8) - 1
        sizes == {8, 16, 32, 64, 128}
    IN  CHOOSE size \in sizes : size > m /\ \A t \in sizes : t > m => size <= t

\* The place a popped entry leaves in the array.
Hole == [k |-> None, v |-> None]

\* The dict an entries array holds: its items in iteration order.
EntriesDict(entries) == SelectSeq(entries, LAMBDA e : e # Hole)

\* The entries array after d.pop(key, None)
entries_pop(entries, key) ==
    [i \in 1 .. Len(entries) |-> IF entries[i].k = key THEN Hole ELSE entries[i]]

\* The table after d[key] = value: its entries array and the room it has
entries_set(entries, usable, key, value) ==
    IF \E i \in 1 .. Len(entries) : entries[i].k = key
    THEN [entries |-> [i \in 1 .. Len(entries) |->
                          IF entries[i].k = key THEN [k |-> key, v |-> value]
                                                ELSE entries[i]],
          usable |-> usable]
    ELSE IF Len(entries) < usable
         THEN [entries |-> Append(entries, [k |-> key, v |-> value]),
               usable |-> usable]
         ELSE LET kept == EntriesDict(entries)
              IN  [entries |-> Append(kept, [k |-> key, v |-> value]),
                   usable |-> USABLE_FRACTION(calculate_keysize(3 * Len(kept)))]

\* A thread: the statement it is at (pc) and its locals: `note`, the node id
\* it holds (old_id, oldest_id, node_id, or the mono_node_id it has read for
\* a message), `oldest_note`, and the iterator over poly_note_to_node it
\* holds: the index of the entry it looks at next (pos), the dict size when
\* it was created (len) and the number of items it has yet to yield (left).
ThLocal(pc, note, node, key, pos, len, left) ==
    [pc |-> pc, note |-> note, node |-> node, key |-> key,
     pos |-> pos, len |-> len, left |-> left]

\* A thread outside the controller.
ThReturned == ThLocal("idle", None, None, None, 0, 0, 0)

\* An exception of type `type` that left `method`.
ThError(type, method) == [type |-> type, method |-> method]

NoError == ThError("", "")

\* What a statement did: the object, the thread, the exception raised.
ThDone(self, th, err) ==
    [self |-> self, th |-> IF err = NoError THEN th ELSE ThReturned, err |-> err]

\* The thread goes on at statement pc ("idle": it returns), holding no node id.
ThGoto(th, pc) ==
    IF pc = "idle" THEN ThReturned ELSE [th EXCEPT !.pc = pc, !.node = None]

\* iter(d.keys()), iter(d.values()): the iterator the thread holds from now on
iter_new(self, th, pc) ==
    [th EXCEPT !.pc = pc, !.pos = 1,
               !.len = Len(self.poly_note_to_node),
               !.left = Len(self.poly_note_to_node)]

\* next() on the thread's iterator (dictiter_iternextkey, _iternextvalue):
\* RuntimeError ("changed size during iteration") when the dict size differs
\* from the size at creation; else the iterator goes on from its index in
\* the entries array, past the holes; at the end of the array it is
\* exhausted (StopIteration); an entry found after the iterator has yielded
\* as many items as the dict had is a RuntimeError ("keys changed during
\* iteration"); else the entry at index i is yielded.
iter_next(self, th) ==
    LET n == Len(self.entries)
        ahead == { j \in th.pos .. n : self.entries[j] # Hole }
        i == IF ahead = {} THEN n + 1
             ELSE CHOOSE j \in ahead : \A m \in ahead : j <= m
    IN  IF Len(self.poly_note_to_node) # th.len
        THEN [raises |-> "RuntimeError", i |-> 0]
        ELSE IF i > n
             THEN [raises |-> "StopIteration", i |-> 0]
             ELSE IF th.left = 0
                  THEN [raises |-> "RuntimeError", i |-> 0]
                  ELSE [raises |-> "", i |-> i]

\* `for node_id in self.poly_note_to_node.values():` asks for the next value
\* in `method`: the body (send_pc) follows, or what comes after the loop.
for_next(self, th, method, send_pc, after) ==
    LET r == iter_next(self, th)
    IN  IF r.raises = "RuntimeError"
        THEN ThDone(self, th, ThError("RuntimeError", method))
        ELSE IF r.raises = "StopIteration"
             THEN ThDone(self, IF after = "idle" THEN ThReturned
                               ELSE [th EXCEPT !.pc = after, !.pos = 0, !.len = 0,
                                               !.left = 0], NoError)
             ELSE ThDone(self, [th EXCEPT !.pc = send_pc,
                                          !.node = self.entries[r.i].v,
                                          !.pos = r.i + 1,
                                          !.left = @ - 1], NoError)

\* The statements that release the mono voice in note_on_midi (mon_),
\* note_off_midi (moff_) and note_off_all (oa_):
\*     self.client.send_message("/n_set", [self.mono_node_id, "gate", 0.0])
\*     self.mono_node_id = None
\*     self.mono_current_note = None
\* the first in two steps, the read of mono_node_id for the argument list and
\* the send.
MonoReadPcs == {"mon_read", "moff_read", "oa_read"}

MonoGatePcs == {"mon_gate", "moff_gate", "oa_gate"}

MonoClearIdPcs == {"mon_clear_id", "moff_clear_id", "oa_clear_id"}

MonoClearNotePcs == {"mon_clear_note", "moff_clear_note", "oa_clear_note"}

\* The statement that follows statement pc of the release of the mono voice.
mono_release_next(pc) ==
    CASE pc = "mon_read" -> "mon_gate"
      [] pc = "mon_gate" -> "mon_clear_id"
      [] pc = "mon_clear_id" -> "mon_clear_note"
      [] pc = "mon_clear_note" -> "mon_set_id"
      [] pc = "moff_read" -> "moff_gate"
      [] pc = "moff_gate" -> "moff_clear_id"
      [] pc = "moff_clear_id" -> "moff_clear_note"
      [] pc = "moff_clear_note" -> "idle"
      [] pc = "oa_read" -> "oa_gate"
      [] pc = "oa_gate" -> "oa_clear_id"
      [] pc = "oa_clear_id" -> "oa_clear_note"
      [] pc = "oa_clear_note" -> "oa_for"

\* One statement of a method by a thread at th.pc; node_id is what
\* _generate_node_id returns.
th_statement(self, th, node_id) ==
    CASE th.pc = "mon_test" ->
            \* MONO MODE: if self.mono_node_id is not None:
            ThDone(self, ThGoto(th, IF self.mono_node_id # None
                                    THEN "mon_read" ELSE "mon_set_id"), NoError)
      [] th.pc \in MonoReadPcs ->
            \* [self.mono_node_id, "gate", 0.0]
            ThDone(self, [th EXCEPT !.pc = mono_release_next(th.pc),
                                    !.node = self.mono_node_id], NoError)
      [] th.pc \in MonoGatePcs ->
            \* self.client.send_message("/n_set", [<mono_node_id>, "gate", 0.0])
            ThDone(send_message(self, "/n_set", th.node, "gate", 0),
                   ThGoto(th, mono_release_next(th.pc)), NoError)
      [] th.pc \in MonoClearIdPcs ->
            \* self.mono_node_id = None
            ThDone([self EXCEPT !.mono_node_id = None],
                   ThGoto(th, mono_release_next(th.pc)), NoError)
      [] th.pc \in MonoClearNotePcs ->
            \* self.mono_current_note = None
            ThDone([self EXCEPT !.mono_current_note = None],
                   ThGoto(th, mono_release_next(th.pc)), NoError)
      [] th.pc = "mon_set_id" ->
            \* node_id = self._generate_node_id(); self.mono_node_id = node_id
            ThDone([self EXCEPT !.mono_node_id = node_id],
                   [th EXCEPT !.pc = "mon_set_note", !.node = node_id], NoError)
      [] th.pc = "mon_set_note" ->
            \* self.mono_current_note = note
            ThDone([self EXCEPT !.mono_current_note = th.note],
                   [th EXCEPT !.pc = "mon_new"], NoError)
      [] th.pc = "mon_new" ->
            \* self.client.send_message("/s_new", [...])
            ThDone(send_message(self, "/s_new", th.node, "freq", midi_note_to_freq(th.note)),
                   ThReturned, NoError)
      [] th.pc = "moff_test_id" ->
            \* if self.mono_node_id is not None and ...
            ThDone(self, ThGoto(th, IF self.mono_node_id # None
                                    THEN "moff_test_note" ELSE "idle"), NoError)
      [] th.pc = "moff_test_note" ->
            \* ... and self.mono_current_note == note:
            ThDone(self, ThGoto(th, IF self.mono_current_note = th.note
                                    THEN "moff_read" ELSE "idle"), NoError)
      [] th.pc = "sp_mono_test" ->
            \* if self.mono_node_id is None: return
            ThDone(self, ThGoto(th, IF self.mono_node_id = None
                                    THEN "idle" ELSE "sp_mono_read"), NoError)
      [] th.pc = "sp_mono_read" ->
            \* [self.mono_node_id, name, value]
            ThDone(self, [th EXCEPT !.pc = "sp_mono_send",
                                    !.node = self.mono_node_id], NoError)
      [] th.pc = "sp_mono_send" ->
            \* self.client.send_message("/n_set", [<mono_node_id>, name, value])
            ThDone(send_message(self, "/n_set", th.node, ThParamName, ThParamValue),
                   ThReturned, NoError)
      [] th.pc = "on_pop" ->
            \* POLY MODE: old_id = self.poly_note_to_node.pop(note, None);
            \* if old_id is not None:
            LET old_id == DictGet(self.poly_note_to_node, th.note)
            IN  ThDone([pop_poly(self, th.note)
                           EXCEPT !.entries = entries_pop(@, th.note)],
                       [th EXCEPT !.node = old_id,
                                  !.pc = IF old_id # None THEN "on_gate_old" ELSE "on_len"],
                       NoError)
      [] th.pc = "on_gate_old" ->
            \* self.client.send_message("/n_set", [old_id, "gate", 0.0])
            ThDone(send_message(self, "/n_set", th.node, "gate", 0),
                   ThGoto(th, "on_len"), NoError)
      [] th.pc = "on_len" ->
            \* if len(self.poly_note_to_node) >= self.max_voices:
            ThDone(self, ThGoto(th, IF at_max_voices(self) THEN "on_iter" ELSE "on_put"),
                   NoError)
      [] th.pc = "on_iter" ->
            \* iter(self.poly_note_to_node.keys())
            ThDone(self, iter_new(self, th, "on_next"), NoError)
      [] th.pc = "on_next" ->
            \* oldest_note = next(<the iterator>)
            LET r == iter_next(self, th)
            IN  IF r.raises # ""
                THEN ThDone(self, th, ThError(r.raises, "note_on_midi"))
                ELSE ThDone(self, [th EXCEPT !.pc = "on_pop_oldest",
                                             !.key = self.entries[r.i].k,
                                             !.pos = 0, !.len = 0, !.left = 0], NoError)
      [] th.pc = "on_pop_oldest" ->
            \* oldest_id = self.poly_note_to_node.pop(oldest_note)
            IF ~DictHas(self.poly_note_to_node, th.key)
            THEN ThDone(self, th, ThError("KeyError", "note_on_midi"))
            ELSE ThDone([pop_poly(self, th.key)
                            EXCEPT !.entries = entries_pop(@, th.key)],
                        [th EXCEPT !.pc = "on_gate_oldest", !.key = None,
                                   !.node = DictGet(self.poly_note_to_node, th.key)],
                        NoError)
      [] th.pc = "on_gate_oldest" ->
            \* self.client.send_message("/n_set", [oldest_id, "gate", 0.0])
            ThDone(send_message(self, "/n_set", th.node, "gate", 0),
                   ThGoto(th, "on_put"), NoError)
      [] th.pc = "on_put" ->
            \* node_id = self._generate_node_id(); self.poly_note_to_node[note] = node_id
            LET table == entries_set(self.entries, self.usable, th.note, node_id)
            IN  ThDone([put_poly(self, th.note, node_id)
                           EXCEPT !.entries = table.entries, !.usable = table.usable],
                       [th EXCEPT !.pc = "on_new", !.node = node_id], NoError)
      [] th.pc = "on_new" ->
            \* self.client.send_message("/s_new", [...])
            ThDone(send_message(self, "/s_new", th.node, "freq", midi_note_to_freq(th.note)),
                   ThReturned, NoError)
      [] th.pc = "off_pop" ->
            \* node_id = self.poly_note_to_node.pop(note, None); if node_id is not None:
            LET id == DictGet(self.poly_note_to_node, th.note)
            IN  ThDone([pop_poly(self, th.note)
                           EXCEPT !.entries = entries_pop(@, th.note)],
                       IF id # None THEN [th EXCEPT !.pc = "off_gate", !.node = id]
                                    ELSE ThReturned, NoError)
      [] th.pc = "off_gate" ->
            \* self.client.send_message("/n_set", [node_id, "gate", 0.0])
            ThDone(send_message(self, "/n_set", th.node, "gate", 0), ThReturned, NoError)
      [] th.pc = "sp_test" ->
            \* if not self.poly_note_to_node: return
            ThDone(self, ThGoto(th, IF self.poly_note_to_node = <<>>
                                    THEN "idle" ELSE "sp_for"), NoError)
      [] th.pc = "sp_for" ->
            \* for node_id in self.poly_note_to_node.values(): the iterator is made
            ThDone(self, iter_new(self, th, "sp_iter"), NoError)
      [] th.pc = "sp_iter" -> for_next(self, th, "set_param", "sp_send", "idle")
      [] th.pc = "sp_send" ->
            \* self.client.send_message("/n_set", [node_id, name, value])
            ThDone(send_message(self, "/n_set", th.node, ThParamName, ThParamValue),
                   ThGoto(th, "sp_iter"), NoError)
      [] th.pc = "oa_for" ->
            \* for node_id in self.poly_note_to_node.values(): the iterator is made
            ThDone(self, iter_new(self, th, "oa_iter"), NoError)
      [] th.pc = "oa_iter" -> for_next(self, th, "note_off_all", "oa_send", "oa_clear")
      [] th.pc = "oa_send" ->
            \* self.client.send_message("/n_set", [node_id, "gate", 0.0])
            ThDone(send_message(self, "/n_set", th.node, "gate", 0),
                   ThGoto(th, "oa_iter"), NoError)
      [] th.pc = "oa_clear" ->
            \* self.poly_note_to_node.clear()
            ThDone([self EXCEPT !.poly_note_to_node = <<>>,
                                !.entries = <<>>,
                                !.usable = 0,
                                !.trace = Append(@, ScEvent("clear_poly", "", None, "", None))],
                   ThReturned, NoError)

\* note_on_midi(note, velocity > 0) up to `if not self.poly_mode:`
th_note_on_midi(self, note) ==
    ThDone(self, ThLocal(IF ~self.poly_mode THEN "mon_test" ELSE "on_pop",
                         note, None, None, 0, 0, 0), NoError)

\* note_off_midi(note) up to `if not self.poly_mode:`
th_note_off_midi(self, note) ==
    ThDone(self, ThLocal(IF ~self.poly_mode THEN "moff_test_id" ELSE "off_pop",
                         note, None, None, 0, 0, 0), NoError)

\* set_param(name, value) up to `if not self.poly_mode:`
th_set_param(self) ==
    ThDone(self, ThLocal(IF ~self.poly_mode THEN "sp_mono_test" ELSE "sp_test",
                         None, None, None, 0, 0, 0), NoError)

\* note_off_all() up to `if self.mono_node_id is not None:`
th_note_off_all(self) ==
    ThDone(self, ThLocal(IF self.mono_node_id # None THEN "oa_read" ELSE "oa_for",
                         None, None, None, 0, 0, 0), NoError)

\* The node ids sounding after the sends of `trace`, made in order.
RECURSIVE LiveAfter(_, _)
LiveAfter(live, trace) ==
    IF trace = <<>> THEN live
    ELSE LET e == Head(trace)
         IN  LiveAfter(IF e.op = "send" /\ e.addr = "/s_new" THEN live \cup {e.node}
                       ELSE IF e.op = "send" /\ e.ctl = "gate" /\ e.val = 0
                            THEN live \ {e.node}
                            ELSE live,
                       Tail(trace))

\* No thread is inside the controller.
ThIdle ==
    /\ sc_threads = [t \in ThThreads |-> ThReturned]
    /\ sc_entries = <<>>
    /\ sc_usable = 0
    /\ sc_calls = 0
    /\ sc_live = {}
    /\ sc_error = NoError

\* No reboot_audio() call has been made.
DevIdle ==
    /\ dev_requested = <<>>
    /\ dev_booted = <<>>

\* No MIDI message has been dispatched.
MdIdle == md_last = NoMessage

\* The objects outside the backend under study, before any call on them.
AuxIdle == DevIdle /\ MdIdle /\ PmIdle /\ ThIdle

\* The caller may make another enqueuing call.
WkMayCall == Len(wk_enqueued) < MaxCmds

\* PeppermintSynthEngine.__init__: _running set, an empty queue, no device
\* override, the worker thread started and at the first line of _thread_main;
\* no call has been made yet.
WkIdle ==
    /\ eng_running = TRUE
    /\ eng_command_queue = <<>>
    /\ eng_audio_device = ""
    /\ wk_pc = "startup"
    /\ gui_pc = "idle"
    /\ wk_enqueued = <<>>
    /\ wk_applied = <<>>
    /\ eng_sounding = {}
    /\ eng_access = {}
    /\ AuxIdle

\* The engine as __init__ returns it.
WkInit ==
    /\ backend = "engine"
    /\ ScAbsent
    /\ EngInit
    /\ WkIdle

GuiSetPolyMode ==
    /\ gui_pc = "idle" /\ WkMayCall
    /\ \E is_poly \in BOOLEAN : WkCall(api_set_poly_mode(WkSelf, "gui", is_poly))
    /\ UNCHANGED gui_pc

GuiSetParam ==
    /\ gui_pc = "idle" /\ WkMayCall
    /\ \E name \in WkParamNames, value \in WkParamValues :
          WkCall(api_set_param(WkSelf, "gui", name, value))
    /\ UNCHANGED gui_pc

GuiNoteOn ==
    /\ gui_pc = "idle" /\ WkMayCall
    /\ \E midi_note \in WkNotes, velocity \in WkVelocities :
          WkCall(api_note_on(WkSelf, "gui", midi_note, velocity))
    /\ UNCHANGED gui_pc

GuiNoteOff ==
    /\ gui_pc = "idle" /\ WkMayCall
    /\ \E midi_note \in WkNotes : WkCall(api_note_off(WkSelf, "gui", midi_note))
    /\ UNCHANGED gui_pc

GuiNoteOffAll ==
    /\ gui_pc = "idle" /\ WkMayCall
    /\ WkCall(api_note_off_all(WkSelf, "gui"))
    /\ UNCHANGED gui_pc

GuiSetAudioDevice ==
    /\ gui_pc = "idle"
    /\ \E device \in WkDevices : WkCall(api_set_audio_device(WkSelf, "gui", device))
    /\ UNCHANGED gui_pc

GuiRebootAudio ==
    /\ gui_pc = "idle" /\ WkMayCall
    /\ WkCall(api_reboot_audio(WkSelf, "gui"))
    /\ UNCHANGED gui_pc

GuiIsServerRunning ==
    /\ gui_pc = "idle"
    /\ WkCall(api_is_server_running(WkSelf, "gui"))
    /\ UNCHANGED gui_pc

\* PeppermintSynthEngine.shutdown() called on the engine by the thread that
\* owns it, its first statement. (No window of the GUI makes this call: the
\* closeEvent written around it is a method of JackRoutingDialog, which has
\* no engine, and SynthControlWindow defines no closeEvent.)
CallShutdownFlag ==
    /\ gui_pc = "idle"
    /\ WkCall(api_shutdown_flag(WkSelf, "gui"))
    /\ gui_pc' = "shutdown"

\* ... and its second statement, after which that thread makes no further call.
CallShutdownPut ==
    /\ gui_pc = "shutdown"
    /\ WkCall(api_shutdown_put(WkSelf, "gui"))
    /\ gui_pc' = "closed"

\* The MIDI polling thread calls note_on_cb = engine.note_on.
MidiNoteOn ==
    /\ WkMayCall
    /\ \E midi_note \in WkNotes, velocity \in WkVelocities :
          WkCall(api_note_on(WkSelf, "midi", midi_note, velocity))
    /\ UNCHANGED gui_pc

\* The MIDI polling thread calls note_off_cb = engine.note_off.
MidiNoteOff ==
    /\ WkMayCall
    /\ \E midi_note \in WkNotes : WkCall(api_note_off(WkSelf, "midi", midi_note))
    /\ UNCHANGED gui_pc

\* The worker evaluates the loop condition.
WkWhile ==
    /\ wk_pc = "loop"
    /\ WkAssign(thread_main_while(WkSelf))
    /\ UNCHANGED <<eng_trace, eng_cmd, eng_sounding, gui_pc, aux_vars>>

\* The worker thread boots the server of the startup.
WkStartupBoot ==
    /\ wk_pc = "startup"
    /\ \E returns \in BOOLEAN :
          WkWork(thread_main_boot(WkSelf, returns), <<"startup">>)
    /\ UNCHANGED gui_pc

\* The worker thread installs the SynthDef and creates group and defaults.
WkStartupInstall ==
    /\ wk_pc = "startup_install"
    /\ \E outcome \in InstallOutcomes :
          WkWork(thread_main_install(WkSelf, outcome), <<"startup">>)
    /\ UNCHANGED gui_pc

\* The worker's get() returns a command and the worker dispatches it.
WkCommand ==
    /\ wk_pc = "get"
    /\ eng_command_queue # <<>>
    /\ LET r == thread_main_command(WkSelf)
       IN  WkWork(r, r.applied[Len(r.applied)].cmd)
    /\ UNCHANGED gui_pc

\* The worker's self._server.quit() returns; `self._server = None`.
WkBootQuit ==
    /\ wk_pc = "boot_quit"
    /\ WkWork(boot_quit(WkSelf), <<"reboot">>)
    /\ UNCHANGED gui_pc

\* The worker, inside _boot_server_locked, builds the options of the boot.
WkBootOptions ==
    /\ wk_pc = "boot_options"
    /\ \E raises \in BOOLEAN :
          WkWork(read_audio_device(WkSelf, raises), <<"reboot">>)
    /\ UNCHANGED gui_pc

\* The worker's supriya.Server(...).boot() returns or raises.
WkBootServer ==
    /\ wk_pc = "boot_server"
    /\ \E returns \in BOOLEAN : WkWork(boot_boot(WkSelf, returns), <<"reboot">>)
    /\ UNCHANGED gui_pc

\* The worker installs the SynthDef and creates group and defaults.
WkBootInstall ==
    /\ wk_pc = "boot_install"
    /\ \E outcome \in InstallOutcomes :
          WkWork(boot_install(WkSelf, outcome), <<"reboot">>)
    /\ UNCHANGED gui_pc

\* The worker's get() times out on an empty queue.
WkEmpty ==
    /\ wk_pc = "get"
    /\ queue_get_times_out(eng_command_queue)
    /\ WkAssign(thread_main_empty(WkSelf))
    /\ UNCHANGED <<eng_trace, eng_cmd, eng_sounding, gui_pc, aux_vars>>

\* The worker has left the loop and cleans up.
WkCleanup ==
    /\ wk_pc = "cleanup"
    /\ WkWork(thread_main_cleanup(WkSelf), <<"cleanup">>)
    /\ UNCHANGED gui_pc

WkWorker ==
    \/ WkStartupBoot
    \/ WkStartupInstall
    \/ WkWhile
    \/ WkCommand
    \/ WkBootQuit
    \/ WkBootOptions
    \/ WkBootServer
    \/ WkBootInstall
    \/ WkEmpty
    \/ WkCleanup

WkNext ==
    \/ GuiSetPolyMode
    \/ GuiSetParam
    \/ GuiNoteOn
    \/ GuiNoteOff
    \/ GuiNoteOffAll
    \/ GuiSetAudioDevice
    \/ GuiRebootAudio
    \/ GuiIsServerRunning
    \/ CallShutdownFlag
    \/ CallShutdownPut
    \/ MidiNoteOn
    \/ MidiNoteOff
    \/ WkStartupBoot
    \/ WkStartupInstall
    \/ WkWhile
    \/ WkCommand
    \/ WkBootQuit
    \/ WkBootOptions
    \/ WkBootServer
    \/ WkBootInstall
    \/ WkEmpty
    \/ WkCleanup

\* The threaded engine; the operating system schedules the worker thread
\* again and again, and every engine call it makes returns.
SpecWorker == WkInit /\ [][WkNext]_vars /\ WF_vars(WkWorker)

\* group.add_synth(**controls) raises: no Synth is returned
add_synth_raises(eng, controls) ==
    [eng EXCEPT !.trace = Append(@, EngEvent("add_synth_raised", None, controls))]

\* _handle_note_on gets as far as calling add_synth
calls_add_synth(eng) ==
    eng.server /\ eng.synth_group /\ (eng.poly_mode \/ eng.mono_voice = None)

\* _handle_note_on when its add_synth call raises: the call is not inside a
\* try, so the assignment of the voice is not reached and the exception
\* leaves the handler.
handle_note_on_raises(eng, midi_note, velocity) ==
    add_synth_raises(eng, NoteOnControls(eng, midi_note, velocity))

\* _thread_main: one pass of the loop body whose note_on handler raises; the
\* loop has no try around the dispatch, so the exception ends _thread_main
\* and with it the worker thread, before the cleanup.
thread_main_command_raises(self) ==
    LET got == queue_get(self.command_queue)
        s1 == [self EXCEPT !.command_queue = got.rest,
                           !.applied = Append(@, got.entry),
                           !.pc = "crashed"]
    IN  handle_note_on_raises(s1, got.entry.cmd[2], got.entry.cmd[3])

\* The worker's get() returns a note_on whose add_synth call raises.
WkCommandRaises ==
    /\ wk_pc = "get"
    /\ eng_command_queue # <<>>
    /\ queue_get(eng_command_queue).entry.cmd[1] = "note_on"
    /\ calls_add_synth(WkSelf)
    /\ LET r == thread_main_command_raises(WkSelf)
       IN  WkWork(r, r.applied[Len(r.applied)].cmd)
    /\ UNCHANGED gui_pc

\* The caller may make another enqueuing call in a run that ends in shutdown.
WkFew == Len(wk_enqueued) < MaxShutdownCmds

WkShutdownNext ==
    \/ WkFew /\ GuiSetPolyMode
    \/ WkFew /\ GuiSetParam
    \/ WkFew /\ GuiNoteOn
    \/ WkFew /\ GuiNoteOff
    \/ WkFew /\ GuiNoteOffAll
    \/ WkFew /\ GuiRebootAudio
    \/ CallShutdownFlag
    \/ CallShutdownPut
    \/ WkFew /\ MidiNoteOn
    \/ WkFew /\ MidiNoteOff
    \/ WkStartupBoot
    \/ WkStartupInstall
    \/ WkWhile
    \/ WkCommand
    \/ WkBootQuit
    \/ WkBootOptions
    \/ WkBootServer
    \/ WkBootInstall
    \/ WkEmpty
    \/ WkCleanup

\* The threaded engine with few calls before shutdown() is called; the
\* worker thread is scheduled again and again, the GUI and MIDI threads
\* need not be.
SpecShutdown == WkInit /\ [][WkShutdownNext]_vars /\ WF_vars(WkWorker)

\* The threaded engine, few calls, and an engine whose add_synth may raise.
WkFaultsNext ==
    \/ WkShutdownNext
    \/ WkCommandRaises

SpecWorkerFaults == WkInit /\ [][WkFaultsNext]_vars /\ WF_vars(WkWorker)

\* The engine constructed, its commands handled one by one, for the player
\* who holds down more and more keys.
KeysNext ==
    \/ EngStartupBoot
    \/ EngStartupInstall
    \/ KeysSetPolyMode
    \/ KeysNoteOn
    \/ KeysNoteOffAll

SpecKeys == WkInit /\ [][KeysNext]_vars

----------------------------------------------------------------------------
\* The OSC backend constructed.
ScfInit ==
    /\ backend = "sc"
    /\ ScInit
    /\ EngAbsent
    /\ WkIdle

ScfNext ==
    \/ ScSetPolyMode
    \/ ScfNoteOn
    \/ ScfNoteOff
    \/ ScfNoteOffAll
    \/ ScfSetParam

\* The OSC backend with sends that may fail.
SpecScFaults == ScfInit /\ [][ScfNext]_vars

----------------------------------------------------------------------------
(* The audio device of a reboot: the GUI thread stores devices and requests *)
(* reboots, the worker boots.                                               *)

\* The engine object after a step that may have requested or made a boot.
DevAssign(r) ==
    /\ WkAssign(r)
    /\ dev_requested' = r.requested
    /\ dev_booted' = r.booted

\* The device combo box of the GUI changed, or _on_reboot_audio stored its device.
DevSetAudioDevice ==
    /\ gui_pc = "idle"
    /\ \E device \in WkDevices : DevAssign(api_set_audio_device(WkSelf, "gui", device))
    /\ UNCHANGED <<eng_trace, eng_cmd, eng_sounding, gui_pc, not_dev_vars>>

DevRebootAudio ==
    /\ gui_pc = "idle"
    /\ Len(dev_requested) < MaxReboots
    /\ DevAssign(api_reboot_audio(WkSelf, "gui"))
    /\ UNCHANGED <<eng_trace, eng_cmd, eng_sounding, gui_pc, not_dev_vars>>

\* The worker, inside _boot_server_locked, builds the options of the boot.
DevBootOptions ==
    /\ wk_pc = "boot_options"
    /\ \E raises \in BOOLEAN :
          LET r == read_audio_device(WkSelf, raises)
          IN  /\ DevAssign(r)
              /\ eng_trace' = r.trace
              /\ eng_cmd' = <<"reboot">>
              /\ eng_sounding' = SoundingAfter(eng_sounding, r.trace)
    /\ UNCHANGED <<gui_pc, not_dev_vars>>

DevNext ==
    \/ DevSetAudioDevice
    \/ DevRebootAudio
    \/ WkStartupBoot
    \/ WkStartupInstall
    \/ WkWhile
    \/ WkCommand
    \/ WkBootQuit
    \/ DevBootOptions
    \/ WkBootServer
    \/ WkBootInstall
    \/ WkEmpty

\* The threaded engine with a GUI that selects devices and reboots the audio.
SpecDevice == WkInit /\ [][DevNext]_vars

----------------------------------------------------------------------------
(* One message at a time through the dispatcher of each MidiInputManager.   *)

\* peppermint_midi: _thread_main hands a pending message to _handle_message.
PmHandleMessage ==
    /\ backend = "engine"
    /\ \E msg \in MidiMessages, has_on_cb, has_off_cb, cb_raises \in BOOLEAN :
          md_last' = MdDispatched("peppermint_midi", msg, has_on_cb, has_off_cb,
                        handle_message(msg, has_on_cb, has_off_cb, cb_raises))
    /\ UNCHANGED <<backend, sc_vars, eng_vars, wk_vars, not_md_vars>>

\* midi_input: mido's thread calls _midi_callback with an arriving message.
MiMidiCallback ==
    /\ backend = "sc"
    /\ \E msg \in MidiMessages, has_on_cb, has_off_cb, cb_raises \in BOOLEAN :
          md_last' = MdDispatched("midi_input", msg, has_on_cb, has_off_cb,
                        midi_callback(msg, has_on_cb, has_off_cb, cb_raises))
    /\ UNCHANGED <<backend, sc_vars, eng_vars, wk_vars, not_md_vars>>

MdNext ==
    \/ PmHandleMessage
    \/ MiMidiCallback

----------------------------------------------------------------------------
(* The MIDI manager of peppermint_gui: one action per statement and thread. *)

\* The manager after a statement left it as r.self.
PmAssign(r) ==
    /\ pm_running' = r.self.running
    /\ pm_input_port' = r.self.input_port
    /\ pm_current_port_name' = r.self.current_port_name
    /\ pm_open' = r.self.open
    /\ pm_created' = r.self.created
    /\ pm_named' = r.self.named
    /\ UNCHANGED <<backend, sc_vars, eng_vars, wk_vars, not_pm_vars>>

\* A statement of the GUI thread.
PmGuiStep(r) ==
    /\ PmAssign(r)
    /\ pm_gui' = r.th
    /\ UNCHANGED <<pm_poll, md_last>>

\* A statement of the polling thread.
PmPollStep(r) ==
    /\ PmAssign(r)
    /\ pm_poll' = r.th
    /\ UNCHANGED <<pm_gui, md_last>>

\* The GUI calls open_port_by_name(name): it starts with _close_current_port().
PmOpenPortByName ==
    /\ pm_gui.pc = "idle"
    /\ pm_created < MaxPorts
    /\ \E name \in PmPortNames :
          PmGuiStep([self |-> PmSelf, th |-> PmThread("close_test", "if_not_name", name, None)])

PmGuiClose ==
    /\ pm_gui.pc \in PmClosePcs
    /\ PmGuiStep(close_current_port(PmSelf, pm_gui))

PmOpenIfNotName ==
    /\ pm_gui.pc = "if_not_name"
    /\ PmGuiStep(open_port_if_not_name(PmSelf, pm_gui))

PmOpenInput ==
    /\ pm_gui.pc = "open_input"
    /\ \E opened \in BOOLEAN : PmGuiStep(open_port_open_input(PmSelf, pm_gui, opened))

PmOpenFailName ==
    /\ pm_gui.pc = "fail_name"
    /\ PmGuiStep(open_port_fail_name(PmSelf, pm_gui))

PmOpenFailPort ==
    /\ pm_gui.pc = "fail_port"
    /\ PmGuiStep(open_port_fail_port(PmSelf, pm_gui))

PmOpenSetPort ==
    /\ pm_gui.pc = "set_port"
    /\ PmGuiStep(open_port_set_port(PmSelf, pm_gui))

PmOpenSetName ==
    /\ pm_gui.pc = "set_name"
    /\ PmGuiStep(open_port_set_name(PmSelf, pm_gui))

\* MidiInputManager.shutdown() called by the thread that owns the manager:
\* self._running = False
PmShutdown ==
    /\ pm_gui.pc = "idle"
    /\ PmGuiStep(pm_shutdown_flag(PmSelf, pm_gui))

\* shutdown goes on to _close_current_port(): the polling thread has ended
\* (is_alive() is False, or join returns at once), or join(timeout=1.0)
\* has returned after its second with the polling thread still alive,
\* wherever in _thread_main that thread is.
PmJoin ==
    /\ pm_gui.pc = "join"
    /\ PmGuiStep(pm_shutdown_join(PmSelf, pm_gui))

PmWhile ==
    /\ pm_poll.pc = "loop"
    /\ PmPollStep(pm_thread_main_while(PmSelf, pm_poll))

PmReadPort ==
    /\ pm_poll.pc = "read"
    /\ PmPollStep(pm_thread_main_read(PmSelf, pm_poll))

\* for msg in port.iter_pending(): self._handle_message(msg)
PmIterMessage ==
    /\ pm_poll.pc = "iter"
    /\ \E msg \in PmMessages :
          md_last' = MdDispatched("peppermint_midi", msg, TRUE, TRUE,
                                  handle_message(msg, TRUE, TRUE, FALSE))
    /\ UNCHANGED <<backend, sc_vars, eng_vars, wk_vars, not_pm_vars, pm_vars>>

PmIterDone ==
    /\ pm_poll.pc = "iter"
    /\ PmPollStep(pm_thread_main_sleep(PmSelf, pm_poll))

\* port.iter_pending() raises IOError or OSError: the device went away.
PmIterError ==
    /\ pm_poll.pc = "iter"
    /\ PmPollStep(pm_thread_main_except(PmSelf, pm_poll))

\* port.iter_pending() raises an exception the loop does not catch.
PmIterRaises ==
    /\ pm_poll.pc = "iter"
    /\ PmPollStep(pm_thread_main_raises(PmSelf, pm_poll))

PmPollClose ==
    /\ pm_poll.pc \in PmClosePcs
    /\ PmPollStep(close_current_port(PmSelf, pm_poll))

PmErrorHandled ==
    /\ pm_poll.pc = "error_handled"
    /\ PmPollStep(pm_thread_main_handled(PmSelf, pm_poll))

PmNext ==
    \/ PmOpenPortByName
    \/ PmGuiClose
    \/ PmOpenIfNotName
    \/ PmOpenInput
    \/ PmOpenFailName
    \/ PmOpenFailPort
    \/ PmOpenSetPort
    \/ PmOpenSetName
    \/ PmShutdown
    \/ PmJoin
    \/ PmWhile
    \/ PmReadPort
    \/ PmIterMessage
    \/ PmIterDone
    \/ PmIterError
    \/ PmIterRaises
    \/ PmPollClose
    \/ PmErrorHandled

\* The engine GUI's MIDI manager with its polling thread.
SpecMidiPorts == WkInit /\ [][PmNext]_vars

----------------------------------------------------------------------------
(* The OSC GUI: its own thread and mido's callback thread on the controller. *)

\* The controller, with the table of its registry, as a thread sees it when
\* it makes a statement.
ThSelf ==
    [poly_mode |-> poly_mode, max_voices |-> max_voices,
     mono_node_id |-> mono_node_id, mono_current_note |-> mono_current_note,
     poly_note_to_node |-> poly_note_to_node, trace |-> <<>>,
     entries |-> sc_entries, usable |-> sc_usable]

\* The controller and thread t after a statement of t that did r.
ThAssign(t, r) ==
    /\ poly_mode' = r.self.poly_mode
    /\ max_voices' = r.self.max_voices
    /\ mono_node_id' = r.self.mono_node_id
    /\ mono_current_note' = r.self.mono_current_note
    /\ poly_note_to_node' = r.self.poly_note_to_node
    /\ sc_trace' = r.self.trace
    /\ sc_live' = LiveAfter(sc_live, r.self.trace)
    /\ sc_error' = r.err
    /\ sc_entries' = r.self.entries
    /\ sc_usable' = r.self.usable
    /\ sc_threads' = [sc_threads EXCEPT ![t] = r.th]
    /\ UNCHANGED <<backend, sc_call, eng_vars, wk_vars, not_th_vars>>

\* Thread t, outside the controller, makes a call that starts as r.
ThCall(t, r) ==
    /\ sc_threads[t].pc = "idle"
    /\ sc_calls < MaxThCalls
    /\ sc_calls' = sc_calls + 1
    /\ ThAssign(t, r)

\* The mode button of the GUI: self.sc.set_poly_mode(is_poly)
ThSetPolyMode ==
    \E enabled \in BOOLEAN :
       ThCall("gui", ThDone(set_poly_mode(ThSelf, enabled), ThReturned, NoError))

\* A key of the GUI piano, or a MIDI note_on with velocity > 0
ThNoteOn ==
    \E t \in ThThreads, note \in ThNotes :
       ThCall(t, th_note_on_midi(ThSelf, note))

\* A key of the GUI piano released, or a MIDI note_off
ThNoteOff ==
    \E t \in ThThreads, note \in ThNotes :
       ThCall(t, th_note_off_midi(ThSelf, note))

\* A slider of the GUI moved
ThSetParam == ThCall("gui", th_set_param(ThSelf))

\* The panic button of the GUI
ThNoteOffAll == ThCall("gui", th_note_off_all(ThSelf))

\* The next statement of a thread that is inside the controller
ThStatement ==
    \E t \in ThThreads, node_id \in NodeIds :
       /\ sc_threads[t].pc # "idle"
       /\ sc_calls' = sc_calls
       /\ ThAssign(t, th_statement(ThSelf, sc_threads[t], node_id))

ThNext ==
    \/ ThSetPolyMode
    \/ ThNoteOn
    \/ ThNoteOff
    \/ ThSetParam
    \/ ThNoteOffAll
    \/ ThStatement

\* The OSC backend called from the GUI thread and the MIDI callback thread.
SpecScThreads == ScfInit /\ [][ThNext]_vars

----------------------------------------------------------------------------
Init ==
    /\ backend \in {"sc", "engine"}
    /\ IF backend = "sc" THEN ScInit ELSE ScAbsent
    /\ IF backend = "engine" THEN EngInit ELSE EngAbsent
    /\ WkIdle

Next ==
    \/ ScSetPolyMode
    \/ ScNoteOn
    \/ ScNoteOff
    \/ ScNoteOffAll
    \/ ScSetParam
    \/ EngStartupBoot
    \/ EngStartupInstall
    \/ EngSetPolyMode
    \/ EngSetParam
    \/ EngNoteOn
    \/ EngNoteOff
    \/ EngNoteOffAll
    \/ EngReboot
    \/ EngBootQuit
    \/ EngBootOptions
    \/ EngBootServer
    \/ EngBootInstall

Spec == Init /\ [][Next]_vars

\* Either GUI with its MIDI manager receiving messages.
SpecMidiDispatch == Init /\ [][MdNext]_vars

----------------------------------------------------------------------------
(* Properties                                                               *)

\* The OSC messages of a trace, in the order sent.
ScSends(trace) == SelectSeq(trace, LAMBDA e : e.op = "send")

\* "/n_set" [node_id, "gate", 0.0]
ScGateOff(node_id) == ScEvent("send", "/n_set", node_id, "gate", 0)

\* "/s_new" ["pyAnalogVoice", node_id, 0, 1, "freq", freq(note)]
ScNew(node_id, note) == ScEvent("send", "/s_new", node_id, "freq", midi_note_to_freq(note))

\* The last call was note_on_midi with velocity > 0.
ScPlayed(call) == call.op = "note_on_midi" /\ call.velocity > 0

\* voice.set(gate=0.0)
EngGateOff(voice) == EngEvent("set", voice, [k \in {"gate"} |-> 0])

\* C1: whenever a call on the controller has returned, poly_note_to_node holds
\* at most max_voices entries.
C1_PolyVoicesBounded ==
    backend = "sc" => Len(poly_note_to_node) <= max_voices

\* C1 witness: a note-on at capacity has just stolen a voice and the registry
\* is full.
C1_Witness ==
    /\ backend = "sc"
    /\ ScPlayed(sc_call)
    /\ Len(poly_note_to_node) = max_voices
    /\ \E i \in 1 .. Len(sc_trace) :
          sc_trace[i].op = "pop_poly" /\ sc_trace[i].val # sc_call.note

\* C2: in poly mode a note-on for an unregistered note at a full registry
\* gates off and removes exactly one entry, the one inserted earliest, and
\* appends the new note as the newest entry.
C2_StealsOldestInserted ==
    [][ ( /\ backend = "sc"
          /\ ScPlayed(sc_call')
          /\ poly_mode
          /\ ~DictHas(poly_note_to_node, sc_call'.note)
          /\ Len(poly_note_to_node) = max_voices )
        => /\ ScSends(sc_trace') =
                 << ScGateOff(poly_note_to_node[1].v),
                    ScNew(sc_call'.node_id, sc_call'.note) >>
           /\ poly_note_to_node' =
                 Append(Tail(poly_note_to_node),
                        [k |-> sc_call'.note, v |-> sc_call'.node_id])
      ]_vars

\* C2 witness: max_voices = 2, notes 64, 60, 67 held in that order: 64 (the
\* oldest, not the lowest) was evicted and 60, 67 remain.
C2_Witness ==
    /\ backend = "sc"
    /\ max_voices = 2
    /\ ScPlayed(sc_call) /\ sc_call.note = 67
    /\ Len(poly_note_to_node) = 2
    /\ poly_note_to_node[1].k = 60 /\ poly_note_to_node[2].k = 67
    /\ \E i \in 1 .. Len(sc_trace) : sc_trace[i].op = "pop_poly" /\ sc_trace[i].val = 64

\* C3: in poly mode a note-on for a registered note sends gate=0 to the old
\* node id, then the create-voice message for the new node id; the registry
\* then holds exactly one entry for the note, with the new node id, has the
\* same size as before, and every other entry is untouched.
C3_RetriggerReplaces ==
    [][ ( /\ backend = "sc"
          /\ ScPlayed(sc_call')
          /\ poly_mode
          /\ DictHas(poly_note_to_node, sc_call'.note) )
        => /\ ScSends(sc_trace') =
                 << ScGateOff(DictGet(poly_note_to_node, sc_call'.note)),
                    ScNew(sc_call'.node_id, sc_call'.note) >>
           /\ Cardinality({ i \in 1 .. Len(poly_note_to_node') :
                              poly_note_to_node'[i].k = sc_call'.note }) = 1
           /\ DictGet(poly_note_to_node', sc_call'.note) = sc_call'.node_id
           /\ Len(poly_note_to_node') = Len(poly_note_to_node)
           /\ DictPop(poly_note_to_node', sc_call'.note) =
                 DictPop(poly_note_to_node, sc_call'.note)
      ]_vars

\* C3 witness: a retrigger at a full registry of two notes.
C3_Witness ==
    /\ backend = "sc"
    /\ ScPlayed(sc_call)
    /\ poly_mode
    /\ max_voices = 2 /\ Len(poly_note_to_node) = 2
    /\ \E i \in 1 .. Len(sc_trace) :
          sc_trace[i].op = "pop_poly" /\ sc_trace[i].val = sc_call.note

\* C4: in mono mode, after a note-on with velocity > 0 a mono voice is
\* registered and the tracked note is the note of that (most recent) call.
C4_MonoTracksLastNote ==
    ( /\ backend = "sc"
      /\ ScPlayed(sc_call)
      /\ ~poly_mode )
    => /\ mono_node_id # None
       /\ mono_node_id = sc_call.node_id
       /\ mono_current_note = sc_call.note

\* C4 witness: a second note-on in mono mode replaced the voice of another note.
C4_Witness ==
    /\ backend = "sc"
    /\ ScPlayed(sc_call)
    /\ ~poly_mode
    /\ mono_current_note = sc_call.note
    /\ Len(ScSends(sc_trace)) = 2
    /\ sc_trace[1] = ScGateOff(sc_trace[1].node)

\* C5: in mono mode note_off_midi(m), when no mono voice exists or the mono
\* voice tracks another note, sends nothing and leaves the mono slot alone.
C5_StaleNoteOffIgnored ==
    [][ ( /\ backend = "sc"
          /\ sc_call'.op = "note_off_midi"
          /\ ~poly_mode
          /\ (mono_node_id = None \/ mono_current_note # sc_call'.note) )
        => /\ sc_trace' = <<>>
           /\ mono_node_id' = mono_node_id
           /\ mono_current_note' = mono_current_note
      ]_vars

\* C5 witness: after note_on(60), note_on(64), note_off(60) the voice of 64 is
\* still registered and nothing was sent.
C5_Witness ==
    /\ backend = "sc"
    /\ sc_call = [op |-> "note_off_midi", note |-> 60]
    /\ ~poly_mode
    /\ mono_node_id # None
    /\ mono_current_note = 64
    /\ sc_trace = <<>>

\* C6: in mono mode a note-on while a mono voice exists does, in this order:
\* send gate=0 to the old node id, clear the mono slot, record the new voice,
\* send the create-voice message for the new node id -- and nothing else.
C6_MonoReleaseBeforeCreate ==
    [][ ( /\ backend = "sc"
          /\ ScPlayed(sc_call')
          /\ ~poly_mode
          /\ mono_node_id # None )
        => sc_trace' =
              << ScGateOff(mono_node_id),
                 ScEvent("clear_mono", "", None, "", None),
                 ScEvent("set_mono", "", sc_call'.node_id, "", sc_call'.note),
                 ScNew(sc_call'.node_id, sc_call'.note) >>
      ]_vars

\* C6 witness: a mono note-on that found a voice: one gate-off, then one create.
C6_Witness ==
    /\ backend = "sc"
    /\ ScPlayed(sc_call)
    /\ ~poly_mode
    /\ Len(sc_trace) = 4
    /\ sc_trace[1].op = "send" /\ sc_trace[1].ctl = "gate"
    /\ sc_trace[2].op = "clear_mono"
    /\ sc_trace[4].op = "send" /\ sc_trace[4].addr = "/s_new"

\* C7: note_on_midi(n, v) with v <= 0 leaves the registry exactly as
\* note_off_midi(n) would from the same state, sends exactly the same
\* messages, and sends no "/s_new".
C7_ZeroVelocityIsNoteOff ==
    [][ ( /\ backend = "sc"
          /\ sc_call'.op = "note_on_midi"
          /\ sc_call'.velocity <= 0 )
        => LET r == note_off_midi(ScSelf, sc_call'.note)
           IN  /\ poly_mode' = r.poly_mode
               /\ mono_node_id' = r.mono_node_id
               /\ mono_current_note' = r.mono_current_note
               /\ poly_note_to_node' = r.poly_note_to_node
               /\ sc_trace' = r.trace
               /\ \A i \in 1 .. Len(sc_trace') : sc_trace'[i].addr # "/s_new"
      ]_vars

\* C7 witness: a note-on with velocity 0 has released the voice of its note.
C7_Witness ==
    /\ backend = "sc"
    /\ sc_call.op = "note_on_midi"
    /\ sc_call.velocity <= 0
    /\ Len(sc_trace) >= 2
    /\ sc_trace[1].op = "send" /\ sc_trace[1].ctl = "gate"

\* C8: note_off_all, in either backend, mode and state, sends one gate=0 per
\* registered voice (mono and poly, whichever mode is selected) and nothing
\* else, and leaves the mono slot and the poly registry empty.
C8_NoteOffAllReleasesEverything ==
    [][ /\ ( backend = "sc" /\ sc_call'.op = "note_off_all" )
           => /\ ScSends(sc_trace') =
                    (IF mono_node_id # None THEN <<ScGateOff(mono_node_id)>> ELSE <<>>)
                    \o [i \in 1 .. Len(poly_note_to_node) |->
                           ScGateOff(poly_note_to_node[i].v)]
              /\ mono_node_id' = None
              /\ mono_current_note' = None
              /\ poly_note_to_node' = <<>>
        /\ ( backend = "engine" /\ eng_cmd'[1] = "note_off_all" )
           => /\ eng_trace' =
                    [i \in 1 .. Len(eng_poly_voices) |-> EngGateOff(eng_poly_voices[i].v)]
                    \o (IF eng_mono_voice # None THEN <<EngGateOff(eng_mono_voice)>>
                        ELSE <<>>)
              /\ eng_mono_voice' = None
              /\ eng_poly_voices' = <<>>
      ]_vars

\* C8 witness: note_off_all released a mono voice and two poly voices in one call.
C8_Witness ==
    /\ backend = "sc"
    /\ sc_call.op = "note_off_all"
    /\ Len(ScSends(sc_trace)) = 3
    /\ mono_node_id = None
    /\ poly_note_to_node = <<>>

\* C9: in the engine, a set_param with a known name handled while no voice is
\* registered makes no engine call and stores the value; and the next voice a
\* note_on creates carries every value so stored (amp: scaled by velocity),
\* unless a set_param of the same name or a reboot came in between.
C9_StoredParamSeedsNextVoice ==
    [][ backend = "engine" =>
        /\ ( /\ eng_cmd'[1] = "set_param"
             /\ eng_cmd'[2] \in DOMAIN eng_global_params
             /\ EngNoVoice )
           => /\ eng_trace' = <<>>
              /\ eng_global_params'[eng_cmd'[2]] = eng_cmd'[3]
        /\ ( /\ eng_cmd'[1] = "note_on"
             /\ eng_synths' = eng_synths + 1 )
           => LET created == eng_trace'[Len(eng_trace')]
              IN  /\ created.op = "add_synth"
                  /\ \A p \in eng_pending :
                        /\ p[1] \in DOMAIN created.controls
                        /\ created.controls[p[1]] =
                              IF p[1] = "amp" THEN ScaledAmp(eng_cmd'[3], p[2])
                              ELSE p[2]
      ]_vars

\* C9 witness: the first voice the engine ever created (so every earlier
\* set_param found no voice) carries detune = 0.5 and amp = 0.5 * 100/127,
\* neither of them a default.
C9_Witness ==
    /\ backend = "engine"
    /\ eng_cmd[1] = "note_on"
    /\ eng_synths = 1
    /\ Len(eng_trace) = 1
    /\ eng_trace[1].op = "add_synth"
    /\ "detune" \in DOMAIN eng_trace[1].controls
    /\ eng_trace[1].controls["detune"] = 500
    /\ eng_trace[1].controls["amp"] = ScaledAmp(100, 500)

\* C10: after set_param(name, value) every registered voice -- the mono voice
\* and every poly voice, whichever mode is selected -- has been sent one
\* "/n_set" [node_id, name, value], and nothing else was sent.
C10_SetParamReachesEveryVoice ==
    ( backend = "sc" /\ sc_call.op = "set_param" )
    => ScSends(sc_trace) =
          (IF mono_node_id # None
           THEN <<ScEvent("send", "/n_set", mono_node_id, sc_call.name, sc_call.value)>>
           ELSE <<>>)
          \o [i \in 1 .. Len(poly_note_to_node) |->
                 ScEvent("send", "/n_set", poly_note_to_node[i].v,
                         sc_call.name, sc_call.value)]

\* The 16 parameter names of the peppermint_voice SynthDef that the engine's
\* interface documents (every SynthDef control but frequency and gate).
CanonicalParamNames ==
    {"vco_mix", "vco1_wave", "vco2_wave", "detune", "cutoff", "res", "env_amt",
     "noise_mix", "lfo_freq", "lfo_depth", "lfo_target", "atk", "dec", "sus",
     "rel", "amp"}

\* The voices the engine's registry holds.
EngRegistered ==
    SeqToSet(DictValues(eng_poly_voices))
    \cup (IF eng_mono_voice # None THEN {eng_mono_voice} ELSE {})

\* gate=0 to every poly voice in dict order, then to the mono voice
EngGateOffAll ==
    [i \in 1 .. Len(eng_poly_voices) |-> EngGateOff(eng_poly_voices[i].v)]
    \o (IF eng_mono_voice # None THEN <<EngGateOff(eng_mono_voice)>> ELSE <<>>)

\* C11: setting the mode, in either backend, changes the mode flag and nothing
\* else: mono slot, tracked note, poly registry and parameter store stay as
\* they are and nothing is sent.
C11_SetModeOnlyFlipsFlag ==
    [][ /\ ( backend = "sc" /\ sc_call'.op = "set_poly_mode" )
           => /\ poly_mode' = sc_call'.enabled
              /\ sc_trace' = <<>>
              /\ UNCHANGED <<max_voices, mono_node_id, mono_current_note,
                             poly_note_to_node>>
        /\ ( backend = "engine" /\ eng_cmd'[1] = "set_poly_mode" )
           => /\ eng_poly_mode' = eng_cmd'[2]
              /\ eng_trace' = <<>>
              /\ UNCHANGED <<eng_mono_voice, eng_poly_voices, eng_global_params,
                             eng_server, eng_synth_group, eng_synths>>
      ]_vars

\* C11 witness: the engine switched to Poly while a mono voice is registered,
\* and the voice is still registered.
C11_Witness ==
    /\ backend = "engine"
    /\ eng_cmd = <<"set_poly_mode", TRUE>>
    /\ eng_poly_mode
    /\ eng_mono_voice # None
    /\ eng_trace = <<>>

\* C16: a reboot command first sends gate=0 to every registered voice, then
\* frees the group, and leaves the registry empty from then on whatever the
\* outcome of the boot; the next thing it does is to quit the old server;
\* and no command ever addresses a voice that was not registered when the
\* worker took the command (so none of the old server's voices after a
\* reboot).
C16_RebootReleasesAllVoices ==
    [][ backend = "engine" =>
        /\ (wk_pc = "loop" /\ eng_cmd' = <<"reboot">> /\ wk_pc' # wk_pc)
           => /\ wk_pc' = "boot_quit"
              /\ eng_trace' =
                    EngGateOffAll \o
                    (IF eng_synth_group
                     THEN <<EngEvent("free_group", None, NoControls)>> ELSE <<>>)
              /\ ~eng_synth_group'
              /\ eng_server' = eng_server
        /\ (wk_pc = "boot_quit" /\ wk_pc' # wk_pc)
           => /\ wk_pc' = "boot_options"
              /\ eng_trace' =
                    (IF eng_server
                     THEN <<EngEvent("quit_server", None, NoControls)>> ELSE <<>>)
              /\ ~eng_server'
        /\ eng_cmd'[1] = "reboot"
           => eng_poly_voices' = <<>> /\ eng_mono_voice' = None
        /\ \A i \in 1 .. Len(eng_trace') :
              eng_trace'[i].op = "set" => eng_trace'[i].voice \in EngRegistered
      ]_vars

\* C16 witness: a reboot found two voices registered, released them and
\* freed the group; the registry is empty and the old server is about to
\* be quit.
C16_Witness ==
    /\ backend = "engine"
    /\ eng_cmd = <<"reboot">>
    /\ wk_pc = "boot_quit"
    /\ eng_server
    /\ Len(eng_trace) = 3
    /\ eng_trace[1].op = "set" /\ eng_trace[2].op = "set"
    /\ eng_trace[3].op = "free_group"
    /\ eng_poly_voices = <<>> /\ eng_mono_voice = None

\* C17: a set_param whose name is not a key of the parameter store changes
\* neither the store (keys and values) nor the registry nor the mode, and
\* makes no engine call.
C17_UnknownParamIgnored ==
    [][ ( /\ backend = "engine"
          /\ eng_cmd'[1] = "set_param"
          /\ eng_cmd'[2] \notin DOMAIN eng_global_params )
        => /\ eng_trace' = <<>>
           /\ DOMAIN eng_global_params' = DOMAIN eng_global_params
           /\ UNCHANGED <<eng_global_params, eng_mono_voice, eng_poly_voices,
                          eng_poly_mode, eng_server, eng_synth_group, eng_synths>>
      ]_vars

\* C17 witness: an unknown name arrived while a voice was registered (so a
\* forwarded update would show) and nothing was sent.
C17_Witness ==
    /\ backend = "engine"
    /\ eng_cmd[1] = "set_param"
    /\ eng_cmd[2] = "volume"
    /\ eng_mono_voice # None
    /\ eng_poly_voices # <<>>
    /\ eng_trace = <<>>

\* C18: in every state after startup the names set_param accepts (the keys of
\* the parameter store) are exactly the 16 canonical names.
C18_AcceptedNamesAreCanonical ==
    (backend = "engine" /\ wk_pc = "loop")
        => DOMAIN eng_global_params = CanonicalParamNames

\* C19 as claimed: once the startup has created the parameter store, only a
\* set_param command changes it.
C19_OnlySetParamChangesStore ==
    [][ ( backend = "engine" /\ wk_pc \notin {"startup", "startup_install"}
          /\ eng_global_params' # eng_global_params )
        => eng_cmd'[1] = "set_param"
      ]_vars

\* C19 as amended: the parameter store is created by the startup of the
\* worker and afterwards changes only by a set_param command with a known
\* name, which overwrites that one value, or by a reboot command whose boot
\* succeeds, which replaces the store by the defaults _boot_server_locked
\* re-creates; no note_on, note_off, note_off_all, set_poly_mode or failed
\* reboot changes it.
C19_StoreChangedBySetParamOrReboot ==
    [][ ( backend = "engine" /\ eng_global_params' # eng_global_params )
        => \/ /\ eng_cmd' = <<"startup">>
              /\ eng_global_params = NoParams
              /\ eng_global_params' = ThreadMainParams
           \/ /\ eng_cmd'[1] = "set_param"
              /\ eng_cmd'[2] \in DOMAIN eng_global_params
              /\ eng_global_params' =
                    [eng_global_params EXCEPT ![eng_cmd'[2]] = eng_cmd'[3]]
           \/ /\ eng_cmd'[1] = "reboot"
              /\ wk_pc = "boot_install" /\ wk_pc' = "loop"
              /\ eng_server' /\ eng_synth_group'
              /\ eng_global_params' = BootServerParams
      ]_vars

\* C19 witness: a successful reboot has replaced the startup store by the
\* reboot defaults, and the note_on handled after it left the store alone
\* and seeded its new voice from it.
C19_Witness ==
    /\ backend = "engine"
    /\ eng_cmd[1] = "note_on"
    /\ eng_global_params = BootServerParams
    /\ eng_synths = 2
    /\ Len(eng_trace) = 1
    /\ eng_trace[1].op = "add_synth"
    /\ "vco1_tune" \in DOMAIN eng_trace[1].controls

\* C20: in poly mode, in either backend, a note-off for a note without a
\* registered voice sends nothing and changes nothing; a note-off for a
\* registered note sends exactly one gate=0, to that note's voice, and
\* removes that entry only.
C20_PolyNoteOff ==
    [][ /\ ( backend = "sc" /\ sc_call'.op = "note_off_midi" /\ poly_mode )
           => /\ UNCHANGED <<poly_mode, max_voices, mono_node_id, mono_current_note>>
              /\ IF DictHas(poly_note_to_node, sc_call'.note)
                 THEN /\ ScSends(sc_trace') =
                            <<ScGateOff(DictGet(poly_note_to_node, sc_call'.note))>>
                      /\ poly_note_to_node' =
                            SelectSeq(poly_note_to_node,
                                      LAMBDA e : e.k # sc_call'.note)
                 ELSE /\ sc_trace' = <<>>
                      /\ UNCHANGED poly_note_to_node
        /\ ( backend = "engine" /\ eng_cmd'[1] = "note_off" /\ eng_poly_mode )
           => /\ UNCHANGED <<eng_poly_mode, eng_mono_voice, eng_global_params,
                             eng_server, eng_synth_group, eng_synths>>
              /\ IF DictHas(eng_poly_voices, eng_cmd'[2])
                 THEN /\ eng_trace' =
                            <<EngGateOff(DictGet(eng_poly_voices, eng_cmd'[2]))>>
                      /\ eng_poly_voices' =
                            SelectSeq(eng_poly_voices, LAMBDA e : e.k # eng_cmd'[2])
                 ELSE /\ eng_trace' = <<>>
                      /\ UNCHANGED eng_poly_voices
      ]_vars

\* C20 witness: the engine released one of two registered poly voices; the
\* other one is still registered.
C20_Witness ==
    /\ backend = "engine"
    /\ eng_cmd[1] = "note_off"
    /\ eng_poly_mode
    /\ Len(eng_trace) = 1
    /\ Len(eng_poly_voices) = 1
    /\ eng_poly_voices[1].k # eng_cmd[2]

\* The queue entries of `log` that `thread` put, in log order.
EntriesBy(log, thread) == SelectSeq(log, LAMBDA e : e.by = thread)

\* C12: while the worker runs, the commands put into the queue through the
\* public API are taken and dispatched in exactly the order they entered
\* the queue, each once, none lost, merged or repeated: the entries ever put
\* are the entries dispatched followed by the entries still queued; each
\* thread's entries are dispatched in that thread's call order; and the
\* command the worker last handled is the last entry it took.
C12_AppliedInQueueOrder ==
    backend = "engine" =>
        /\ wk_enqueued = wk_applied \o eng_command_queue
        /\ \A thread \in {"gui", "midi"} :
              LET mine == EntriesBy(wk_applied, thread)
              IN  \A i \in 1 .. Len(mine) : mine[i].seq = i
        /\ (wk_applied # <<>> /\ wk_pc # "done")
              => eng_cmd = wk_applied[Len(wk_applied)].cmd

\* The worker dispatched three commands, put alternately by the MIDI thread
\* and the GUI thread.
C12_Witness ==
    /\ backend = "engine"
    /\ Len(wk_applied) = 3
    /\ wk_applied[1].by = "midi"
    /\ wk_applied[2].by = "gui"
    /\ wk_applied[3].by = "midi"
    /\ wk_applied[3].seq = 2
    /\ eng_cmd = wk_applied[3].cmd

\* The accesses a GUI or MIDI thread makes to the engine besides put().
CallerAccesses == { a \in eng_access : a[1] # "worker" /\ a[2] # "_command_queue" }

\* C13 as stated: every method callable from the GUI or MIDI threads only
\* enqueues a command and never reads or writes a field of the engine.
C13_CallersOnlyEnqueue == CallerAccesses = {}

\* The worker is inside _boot_server_locked, past the release of the voices.
WkInBoot == wk_pc \in {"boot_quit", "boot_options", "boot_server", "boot_install"}

\* C13, amended: the GUI and MIDI threads touch the engine only by put(),
\* by writing _running in shutdown(), reading it in reboot_audio(), writing
\* _audio_device in set_audio_device() and reading _server in
\* is_server_running(); the mode flag, the parameter store, the registry and
\* the server and group handles change only in a step of the worker. A
\* reboot is made within one pass of the worker's loop, for one queue entry:
\* the worker releases the voices and frees the group, then quits the old
\* server, builds the options, boots and installs; the other threads run
\* meanwhile (they put commands, store a device, and read _server: still
\* the old server while it quits, absent while the new one boots), but
\* until _boot_server_locked has returned the worker takes no further queue
\* entry, creates no voice and sends no parameter.
C13_WorkerOwnsEngineState ==
    [][ /\ CallerAccesses' \subseteq
              { <<"gui", "_running", "write">>, <<"gui", "_running", "read">>,
                <<"gui", "_audio_device", "write">>, <<"gui", "_server", "read">> }
        /\ <<eng_server, eng_synth_group, eng_poly_mode, eng_global_params,
             eng_poly_voices, eng_mono_voice, eng_synths, eng_trace, eng_cmd>>'
             # <<eng_server, eng_synth_group, eng_poly_mode, eng_global_params,
                 eng_poly_voices, eng_mono_voice, eng_synths, eng_trace, eng_cmd>>
           => /\ wk_pc \in {"startup", "startup_install", "get", "boot_quit",
                             "boot_options", "boot_server", "boot_install",
                             "cleanup"}
              /\ wk_pc' # wk_pc
              /\ wk_enqueued' = wk_enqueued
        /\ (wk_pc = "get" /\ wk_applied' # wk_applied /\ eng_cmd'[1] = "reboot")
           => /\ wk_pc' = "boot_quit"
              /\ eng_server' = eng_server /\ ~eng_synth_group'
              /\ Len(wk_applied') = Len(wk_applied) + 1
              /\ eng_command_queue' = Tail(eng_command_queue)
        /\ (WkInBoot \/ WkInBoot')
           => /\ eng_cmd' = <<"reboot">>
              /\ WkInBoot => wk_applied' = wk_applied
              /\ eng_poly_voices' = <<>> /\ eng_mono_voice' = None
              /\ \A i \in 1 .. Len(eng_trace') :
                    /\ eng_trace'[i].op # "add_synth"
                    /\ eng_trace'[i].op = "set"
                          => DOMAIN eng_trace'[i].controls = {"gate"}
      ]_vars

\* The worker is inside a reboot: it has released a voice and freed the
\* group and waits for the old server to quit; a command put meanwhile
\* waits in the queue, and the GUI thread has stored an audio device and
\* has read _server.
C13_Witness ==
    /\ backend = "engine"
    /\ eng_cmd[1] = "reboot"
    /\ wk_pc = "boot_quit"
    /\ eng_server /\ ~eng_synth_group
    /\ eng_command_queue # <<>>
    /\ <<"gui", "_audio_device", "write">> \in eng_access
    /\ <<"gui", "_server", "read">> \in eng_access
    /\ \E i \in 1 .. Len(eng_trace) : eng_trace[i].op = "set"

\* C14: once shutdown() has set the flag, the worker thread eventually ends,
\* whether the queue is empty or not and whether or not the shutdown
\* command is ever put: it leaves the command loop and finishes the cleanup,
\* unless an engine call of its startup raised, in which case it never
\* entered the loop and the thread had ended by that exception.
C14_ShutdownTerminates ==
    (backend = "engine" /\ ~eng_running) ~> (wk_pc \in {"done", "startup_crashed"})

\* The worker terminated on the flag alone: shutdown() has not yet put its
\* command, and a command put earlier is still in the queue.
C14_Witness ==
    /\ backend = "engine"
    /\ wk_pc = "done"
    /\ gui_pc = "shutdown"
    /\ ~eng_running
    /\ eng_command_queue # <<>>

\* C15: when the worker has exited after shutdown, no voice the engine
\* created is left without a gate=0, the registry is empty, and the gate-offs
\* of the cleanup come before the group is freed and the server is quit.
C15_NoVoiceLeftSounding ==
    (backend = "engine" /\ wk_pc = "done") =>
        /\ eng_sounding = {}
        /\ EngRegistered = {}
        /\ \A i, j \in 1 .. Len(eng_trace) :
              (eng_trace[i].op = "set" /\ eng_trace[j].op \in {"free_group", "quit_server"})
                 => i < j

\* C21: a note_on command handled while the server or the synth group is
\* absent creates no voice, makes no engine call and leaves registry, store
\* and mode as they are; and it is not replayed later: every voice the
\* worker creates is created by the note_on command it is handling, for
\* that command's note, with server and group present.
C21_NoteOnWithoutServerDropped ==
    [][ backend = "engine" =>
        /\ (eng_cmd'[1] = "note_on" /\ (~eng_server \/ ~eng_synth_group))
           => /\ eng_trace' = <<>>
              /\ UNCHANGED <<eng_poly_voices, eng_mono_voice, eng_synths,
                             eng_global_params, eng_poly_mode, eng_server,
                             eng_synth_group>>
        /\ \A i \in 1 .. Len(eng_trace') :
              eng_trace'[i].op = "add_synth"
                 => /\ eng_cmd'[1] = "note_on"
                    /\ eng_server /\ eng_synth_group
                    /\ eng_trace'[i].controls["frequency"] = midi_to_hz(eng_cmd'[2])
      ]_vars

\* C21 witness: the SynthDef install or the group creation of a reboot
\* failed (a server, but no group), and a note_on with velocity 100 was then
\* handled without any engine call.
C21_Witness ==
    /\ backend = "engine"
    /\ eng_cmd[1] = "note_on"
    /\ eng_cmd[3] = 100
    /\ eng_server
    /\ ~eng_synth_group
    /\ eng_trace = <<>>
    /\ EngRegistered = {}

\* C25: in poly mode a note_on for a note that has a registered voice sends
\* gate=0 to that voice before it creates and registers the new one.
C25_RetriggerGatesOldVoiceOff ==
    [][ ( /\ backend = "engine"
          /\ eng_cmd'[1] = "note_on"
          /\ eng_cmd'[3] > 0
          /\ eng_poly_mode /\ eng_server /\ eng_synth_group
          /\ DictHas(eng_poly_voices, eng_cmd'[2]) )
        => /\ Len(eng_trace') = 2
           /\ eng_trace'[1] = EngGateOff(DictGet(eng_poly_voices, eng_cmd'[2]))
           /\ eng_trace'[2].op = "add_synth"
      ]_vars

\* C26: a note_on command with velocity <= 0 has the effect of the note_off
\* command for the same note: the same engine calls and the same registry.
C26_ZeroVelocityNoteOnIsNoteOff ==
    [][ ( /\ backend = "engine"
          /\ eng_cmd'[1] = "note_on"
          /\ eng_cmd'[3] <= 0 )
        => LET off == handle_note_off(EngSelf, eng_cmd'[2])
           IN  /\ eng_trace' = off.trace
               /\ eng_poly_voices' = off.poly_voices
               /\ eng_mono_voice' = off.mono_voice
               /\ eng_synths' = off.synths
      ]_vars

\* C27: in mono mode, a note_off for a note other than the one whose note_on
\* was the last command (and so triggered the mono voice last) sends no
\* gate=0 to the mono voice.
C27_MonoNoteOffOtherNoteIgnored ==
    [][ ( /\ backend = "engine"
          /\ eng_cmd[1] = "note_on"
          /\ eng_cmd[3] > 0
          /\ ~eng_poly_mode /\ eng_server /\ eng_synth_group
          /\ eng_mono_voice # None
          /\ eng_cmd'[1] = "note_off"
          /\ eng_cmd'[2] # eng_cmd[2] )
        => \A i \in 1 .. Len(eng_trace') : eng_trace'[i] # EngGateOff(eng_mono_voice)
      ]_vars

\* C28: a note_off command that sends gate=0 to a voice removes that voice
\* from the registry in the same step.
C28_GateOffClearsRegistryEntry ==
    [][ ( backend = "engine" /\ eng_cmd'[1] = "note_off" )
        => \A i \in 1 .. Len(eng_trace') :
              eng_trace'[i].op = "set"
                 => /\ eng_trace'[i].voice \notin SeqToSet(DictValues(eng_poly_voices'))
                    /\ eng_trace'[i].voice # eng_mono_voice'
      ]_vars

\* C29 as stated: a set_param made while no voice is registered is retained,
\* and the note_on_midi made right after it hands the value to the voice it
\* creates, in the create message or in a parameter-set message to its node.
C29_ParamRetainedForNextVoice ==
    [][ ( /\ backend = "sc"
          /\ sc_call.op = "set_param"
          /\ mono_node_id = None /\ poly_note_to_node = <<>>
          /\ ScPlayed(sc_call') )
        => \E i \in 1 .. Len(sc_trace') :
              /\ sc_trace'[i].op = "send"
              /\ sc_trace'[i].node = sc_call'.node_id
              /\ sc_trace'[i].ctl = sc_call.name
              /\ sc_trace'[i].val = sc_call.value
      ]_vars

\* C29, amended: a set_param made while no voice is registered (no mono
\* voice and an empty poly map) sends nothing and retains nothing: the
\* controller is left exactly as it was, and the note_on_midi made right
\* after it sends one message only, the "/s_new" of its voice carrying "freq"
\* alone.
C29_ParamWithoutVoiceIsDropped ==
    [][ backend = "sc" =>
        /\ ( /\ sc_call'.op = "set_param"
             /\ mono_node_id = None /\ poly_note_to_node = <<>> )
           => /\ sc_trace' = <<>>
              /\ UNCHANGED <<poly_mode, max_voices, mono_node_id,
                             mono_current_note, poly_note_to_node>>
        /\ ( /\ sc_call.op = "set_param"
             /\ mono_node_id = None /\ poly_note_to_node = <<>>
             /\ ScPlayed(sc_call') )
           => ScSends(sc_trace') = <<ScNew(sc_call'.node_id, sc_call'.note)>>
      ]_vars

\* C29 witness: set_param("cutoff", 0.5) was called while neither a mono nor
\* a poly voice was registered, and sent nothing.
C29_Witness ==
    /\ backend = "sc"
    /\ sc_call.op = "set_param"
    /\ sc_call.name = "cutoff"
    /\ sc_call.value = 500
    /\ poly_note_to_node = <<>>
    /\ mono_node_id = None
    /\ sc_trace = <<>>

\* C30: every note_on command with velocity > 0 handled while server and
\* group are present requests a new voice whose controls are the whole
\* parameter store overridden by frequency, scaled amp and gate = 1.0; in
\* mono mode a registered mono voice is sent gate=0 first.
C30_NoteOnRequestsNewVoice ==
    [][ ( /\ backend = "engine"
          /\ eng_cmd'[1] = "note_on"
          /\ eng_cmd'[3] > 0
          /\ eng_server /\ eng_synth_group )
        => LET controls == NoteOnControls(EngSelf, eng_cmd'[2], eng_cmd'[3])
               n == Len(eng_trace')
           IN  /\ n >= 1
               /\ eng_trace'[n] = EngEvent("add_synth", eng_synths + 1, controls)
               /\ (~eng_poly_mode /\ eng_mono_voice # None)
                     => /\ n >= 2
                        /\ eng_trace'[1] = EngGateOff(eng_mono_voice)
      ]_vars

\* C23: a failing OSC send in note_on_midi, note_off_midi, note_off_all or
\* set_param does not reach the caller as an error, and the registry ends as
\* it would have had every send succeeded.
C23_SendFailureKeepsOptimisticState ==
    [][ ( /\ backend = "sc"
          /\ sc_call'.op \in {"note_on_midi", "note_off_midi", "note_off_all", "set_param"} )
        => LET ok == ScResult(ScSelf, sc_call')
           IN  /\ ~sc_call'.raised
               /\ mono_node_id' = ok.mono_node_id
               /\ mono_current_note' = ok.mono_current_note
               /\ poly_note_to_node' = ok.poly_note_to_node
      ]_vars

\* C22: no failure of an engine call made while a command is handled ends
\* the worker's command loop: the worker thread is never ended by the
\* exception of a handler.
C22_EngineFailureKeepsWorkerAlive ==
    backend = "engine" => wk_pc # "crashed"

\* C24: the poly registry of the engine never holds more voices than the
\* polyphony limit (max_voices, 8 by default).
C24_EnginePolyRegistryBounded ==
    backend = "engine" => Len(eng_poly_voices) <= DefaultMaxVoices

\* C31 as stated: when the worker has terminated, every command the GUI
\* thread enqueued before it called shutdown() has been applied.
C31_EarlierCommandsApplied ==
    (backend = "engine" /\ wk_pc = "done")
        => \A i \in 1 .. Len(wk_enqueued) :
              (wk_enqueued[i].by = "gui" /\ wk_enqueued[i].cmd[1] # "shutdown")
                  => \E j \in 1 .. Len(wk_applied) : wk_applied[j] = wk_enqueued[i]

\* C31, amended: shutdown() clears _running before it enqueues its command
\* and the worker tests _running before every get(), so a worker that finds
\* the flag cleared at the top of its loop takes no further command and goes
\* to the cleanup with the queue as it is; in the cleanup and after it no
\* command is taken, whatever is still queued.
C31_ShutdownLeavesQueueBehind ==
    [][ backend = "engine"
        => /\ (wk_pc = "loop" /\ ~eng_running /\ wk_pc' # wk_pc)
                 => /\ wk_pc' = "cleanup"
                    /\ eng_command_queue' = eng_command_queue
                    /\ wk_applied' = wk_applied
           /\ wk_pc \in {"cleanup", "done"}
                 => /\ wk_applied' = wk_applied
                    /\ wk_pc' # wk_pc => eng_command_queue' = eng_command_queue
      ]_vars

\* The worker is done and a command the GUI enqueued before shutdown() is
\* still in the queue, after it applied an earlier one.
C31_Witness ==
    /\ backend = "engine"
    /\ wk_pc = "done"
    /\ wk_applied # <<>>
    /\ \E i \in 1 .. Len(eng_command_queue) :
          /\ eng_command_queue[i].by = "gui"
          /\ eng_command_queue[i].cmd[1] # "shutdown"

\* The node ids the controller has registered: the mono slot and the poly map.
RegisteredIds(mono, poly) ==
    (IF mono = None THEN {} ELSE {mono}) \cup { poly[i].v : i \in 1 .. Len(poly) }

\* C32: the node ids of the registered voices (the mono slot and every poly
\* entry) are pairwise distinct.
C32_RegisteredNodeIdsDistinct ==
    backend = "sc"
        => /\ \A i, j \in 1 .. Len(poly_note_to_node) :
                 i # j => poly_note_to_node[i].v # poly_note_to_node[j].v
           /\ \A i \in 1 .. Len(poly_note_to_node) :
                 mono_node_id = None \/ poly_note_to_node[i].v # mono_node_id

\* The node ids registered when the call that ran as `trace` from `self`
\* reached its k-th entry: the registry writes before that entry are made.
RegisteredAt(self, trace, k) ==
    LET s1 == apply_events(self, SubSeq(trace, 1, k - 1))
    IN  RegisteredIds(s1.mono_node_id, s1.poly_note_to_node)

\* C34 as stated: every node id a call sends a create message for is
\* registered when the call returns or is sent gate=0 later in the call, and
\* every gate=0 or parameter-set message goes to a node id that is in the
\* registry at the moment the message is sent.
C34_SendsOnlyToRegisteredNodes ==
    [][ backend = "sc"
        => LET sends == ScSends(sc_trace')
               after == RegisteredIds(mono_node_id', poly_note_to_node')
           IN  /\ \A i \in 1 .. Len(sends) :
                     sends[i].addr = "/s_new"
                        => \/ sends[i].node \in after
                           \/ \E j \in (i + 1) .. Len(sends) :
                                 sends[j] = ScGateOff(sends[i].node)
               /\ \A k \in 1 .. Len(sc_trace') :
                     (sc_trace'[k].op = "send" /\ sc_trace'[k].addr = "/n_set")
                        => sc_trace'[k].node \in RegisteredAt(ScSelf, sc_trace', k)
      ]_vars

\* C34, amended: every call on the controller keeps the node ids accounted
\* for: an id it sends a create message for is registered when it returns
\* (or is sent gate=0 later in the same call), an id that it takes out of
\* the registry is sent gate=0 by it, and every gate=0 or parameter-set
\* message it sends goes to an id that was registered when the call was
\* made: the id is in the registry at the moment of sending, or the message
\* is the gate=0 for the poly entry the statement just before removed.
C34_NodeIdsAccountedFor ==
    [][ backend = "sc"
        => LET sends == ScSends(sc_trace')
               before == RegisteredIds(mono_node_id, poly_note_to_node)
               after == RegisteredIds(mono_node_id', poly_note_to_node')
           IN  /\ \A i \in 1 .. Len(sends) :
                     sends[i].addr = "/s_new"
                        => \/ sends[i].node \in after
                           \/ \E j \in (i + 1) .. Len(sends) :
                                 sends[j] = ScGateOff(sends[i].node)
               /\ \A id \in before \ after :
                     \E i \in 1 .. Len(sends) : sends[i] = ScGateOff(id)
               /\ \A i \in 1 .. Len(sends) :
                     sends[i].addr = "/n_set" => sends[i].node \in before
               /\ \A k \in 1 .. Len(sc_trace') :
                     (sc_trace'[k].op = "send" /\ sc_trace'[k].addr = "/n_set")
                        => \/ sc_trace'[k].node \in RegisteredAt(ScSelf, sc_trace', k)
                           \/ /\ k > 1
                              /\ sc_trace'[k - 1].op = "pop_poly"
                              /\ sc_trace'[k] = ScGateOff(sc_trace'[k].node)
                              /\ sc_trace'[k].node
                                    \in RegisteredAt(ScSelf, sc_trace', k - 1)
                                         \ RegisteredAt(ScSelf, sc_trace', k)
      ]_vars

\* A note-on in poly mode stole a voice: the last call sent gate=0 to an id
\* that is registered no more and a create message for one that is.
C34_Witness ==
    /\ backend = "sc"
    /\ poly_mode
    /\ ScPlayed(sc_call)
    /\ LET sends == ScSends(sc_trace)
           reg == RegisteredIds(mono_node_id, poly_note_to_node)
       IN  /\ \E i \in 1 .. Len(sends) :
                 sends[i].addr = "/n_set" /\ sends[i].ctl = "gate" /\ sends[i].node \notin reg
           /\ \E i \in 1 .. Len(sends) :
                 sends[i].addr = "/s_new" /\ sends[i].node \in reg

\* C35: mono_node_id is None exactly when mono_current_note is None.
C35_MonoSlotSetAndClearedTogether ==
    backend = "sc" => (mono_node_id = None <=> mono_current_note = None)

\* A note-off released the mono voice (both fields cleared), and elsewhere a
\* note-on replaced a held mono voice (both fields cleared, then both set).
C35_Witness ==
    /\ backend = "sc"
    /\ \E i \in 1 .. Len(sc_trace) : sc_trace[i].op = "clear_mono"
    /\ \/ sc_call.op = "note_off_midi" /\ mono_node_id = None /\ mono_current_note = None
       \/ ScPlayed(sc_call) /\ mono_node_id # None /\ mono_current_note = sc_call.note


\* C36 as stated: the boot that serves the i-th reboot_audio() call
\* configures the device that was stored when that call was made.
C36_BootUsesDeviceAtRequest ==
    backend = "engine"
        => \A i \in 1 .. Len(dev_booted) : dev_booted[i] = dev_requested[i]

\* C36, amended: the device of a boot is read inside the boot, after the
\* teardown: the boot that serves a reboot_audio() call configures the device
\* of the last set_audio_device() call made before that moment, be it before
\* or after the reboot_audio() call, or the default device when no device is
\* stored or building the options raised; reboots are served in the order
\* requested.
C36_BootUsesDeviceAtBoot ==
    [][ (backend = "engine" /\ dev_booted' # dev_booted)
        => /\ wk_pc = "boot_options" /\ wk_pc' = "boot_server"
           /\ \/ dev_booted' = Append(dev_booted, eng_audio_device)
              \/ dev_booted' = Append(dev_booted, "")
           /\ Len(dev_booted') <= Len(dev_requested)
           /\ eng_cmd' = <<"reboot">>
      ]_vars

\* A boot configured a device that was not the one stored when its reboot
\* was requested: set_audio_device() was called in between.
C36_Witness ==
    /\ backend = "engine"
    /\ \E i \in 1 .. Len(dev_booted) :
          dev_booted[i] # dev_requested[i] /\ dev_booted[i] # ""


\* C37: each message is dispatched to at most one callback: a note_on with
\* velocity > 0 to note_on_cb(note, velocity) only, a note_on with velocity
\* 0 and every note_off to note_off_cb(note) only, any other message to
\* none; and an exception raised by the callback does not leave the
\* dispatcher, so the messages after it are processed.
C37_MessageDispatch ==
    md_last.impl # ""
        => LET msg == md_last.msg
               on == <<MidiCall("note_on", msg.note, msg.velocity)>>
               off == <<MidiCall("note_off", msg.note, None)>>
           IN  /\ (msg.type = "note_on" /\ msg.velocity > 0)
                     => md_last.calls = IF md_last.has_on_cb THEN on ELSE <<>>
               /\ (msg.type = "note_off" \/ (msg.type = "note_on" /\ msg.velocity <= 0))
                     => md_last.calls = IF md_last.has_off_cb THEN off ELSE <<>>
               /\ msg.type \notin {"note_on", "note_off"} => md_last.calls = <<>>
               /\ ~md_last.propagated

\* A note_on with velocity 0 went to note_off_cb, which raised, and the
\* dispatcher returned normally.
C37_Witness ==
    /\ md_last.impl # ""
    /\ md_last.msg.type = "note_on"
    /\ md_last.msg.velocity = 0
    /\ md_last.calls = <<MidiCall("note_off", md_last.msg.note, None)>>
    /\ md_last.raised
    /\ ~md_last.propagated


\* The threads of the MIDI manager are between statements that change the port.
PmQuiet ==
    /\ pm_gui.pc \in {"idle", "closed"}
    /\ pm_poll.pc \in {"loop", "read", "iter", "done", "crashed"}

\* C38: at most one input port is open at any time; whenever neither thread
\* is inside open_port_by_name, shutdown or _close_current_port, a port is
\* open exactly when current_port_name is set, and it is the port
\* _input_port holds (so after a failed open or an empty name no port is
\* open and the name is None); after shutdown() returned no port is open,
\* and no step taken after shutdown() returned hands a message to a callback.
C38_OnePortOpenAndNamed ==
    /\ [](backend = "engine"
            => /\ Cardinality(pm_open) <= 1
               /\ PmQuiet
                     => /\ pm_current_port_name # "" <=> pm_open # {}
                        /\ pm_open = IF pm_input_port = None THEN {} ELSE {pm_input_port}
               /\ pm_gui.pc = "closed" => pm_open = {})
    /\ [][ (backend = "engine" /\ pm_gui.pc = "closed") => md_last' = md_last ]_vars

\* The polling thread is inside the _close_current_port() of its error handler.
PmInErrorHandler == pm_poll.pc \in PmClosePcs /\ pm_poll.ret = "error_handled"

\* C39: the error handler of the polling thread acts on the port that
\* raised only: each of its statements closes no other port, clears
\* _input_port only if it holds that port, and clears current_port_name
\* only if it is the name of that port.
C39_ErrorHandlerClosesOnlyFailedPort ==
    [][ (backend = "engine" /\ PmInErrorHandler /\ pm_poll' # pm_poll)
        => /\ pm_open \ pm_open' \subseteq {pm_poll.port}
           /\ pm_input_port' # pm_input_port => pm_input_port = pm_poll.port
           /\ pm_current_port_name' # pm_current_port_name => pm_named = pm_poll.port
      ]_vars


\* C33: with note_on_midi / note_off_midi on the MIDI callback thread
\* interleaved access by access with the GUI thread's calls, the poly
\* registry never holds more than max_voices entries, every voice created
\* is registered or was gated off once both threads are out of the
\* controller, and no loop over the registry in set_param or note_off_all
\* raises RuntimeError.
C33_UnlockedCallsKeepRegistry ==
    backend = "sc"
        => /\ Len(poly_note_to_node) <= max_voices
           /\ (\A t \in ThThreads : sc_threads[t].pc = "idle")
                 => sc_live \subseteq RegisteredIds(mono_node_id, poly_note_to_node)
           /\ ~( /\ sc_error.type = "RuntimeError"
                 /\ sc_error.method \in {"set_param", "note_off_all"} )


=============================================================================
